---- MODULE Spec2Model ----
(***************************************************************************)
(* A model of nestools: the 2bpp tile codec (sprites/mod.rs), the sheet    *)
(* extractors (sprites/sheet.rs), the pattern table builder, the stage     *)
(* compiler (stage/serialize.rs) and the spritesheetc run                  *)
(* (spritesheetc.rs, binaries/spritesheetc.rs).                            *)
(***************************************************************************)
EXTENDS Integers, Sequences, FiniteSets, TLC

VARIABLES
    t_pc,       \* position of the tile codec run
    t_bytes,    \* the block handed to Tile::from_bytes (Some/None as a sequence)
    t_result,   \* what Tile::from_bytes returned
    t_tile,     \* the Tile that is iterated
    t_iter,     \* the TileIterator: [row]
    t_rowiter,  \* the current TileRowIterator: [column, bytes]
    t_cur,      \* pixels collected from the current row iterator
    t_rows,     \* rows collected from the tile iterator
    disk,       \* the file system: path -> what decode_file gives for it
    s_pc,       \* position of the sheet extraction run
    s_sheet,    \* the sheet descriptor whose pull_tiles is called
    s_result,   \* what pull_tiles returned
    p_pc,       \* position of the pattern table run
    p_sheet_table,  \* the SheetPatternTable handed to from_sheet_pattern_table
    p_result,   \* what from_sheet_pattern_table returned
    p_pulled,   \* the sheets whose pull_tiles was called, in call order
    p_writer,   \* the writer handed to PatternTable::write
    g_pc,       \* position inside Stage::write_binary
    g_stage,    \* the Stage that is written
    g_writer,   \* the writer handed to write_binary
    g_iterators,    \* per line of data, the characters its iterator has yielded
    g_chars,    \* the linearized characters
    g_encoded,  \* what run_length_encode returned
    g_result,   \* what write_binary returned
    i_pc,       \* which iterator is polled: a TileIterator ("rows") or a TileRowIterator ("row")
    i_tile,     \* the Tile of the polled TileIterator
    i_iter,     \* the polled iterator: [row] or [column, bytes]
    i_last,     \* what its last next() returned
    i_fused,    \* whether some next() of it has returned None
    r_pc,       \* position of the run_length_encode call
    r_chars,    \* the characters handed to run_length_encode
    r_limit,    \* the limit handed to run_length_encode
    r_encoded,  \* what run_length_encode returned
    c_pc,       \* position inside run of spritesheetc
    c_config,   \* the Config handed to run, with the manifest behind config.input
    c_before,   \* the output files as they were when run was called
    c_fs,       \* the output files: path -> content, or Absent
    c_table,    \* the SheetPatternTable and then the PatternTable of run
    c_result    \* what run returned

tvars == <<t_pc, t_bytes, t_result, t_tile, t_iter, t_rowiter, t_cur, t_rows>>

svars == <<s_pc, s_sheet, s_result>>

pvars == <<p_pc, p_sheet_table, p_result, p_pulled, p_writer>>

gvars == <<g_pc, g_stage, g_writer, g_iterators, g_chars, g_encoded, g_result>>

ivars == <<i_pc, i_tile, i_iter, i_last, i_fused>>

rvars == <<r_pc, r_chars, r_limit, r_encoded>>

cvars == <<c_pc, c_config, c_before, c_fs, c_table, c_result>>

vars == <<tvars, disk, svars, pvars, gvars, ivars, rvars, cvars>>

-----------------------------------------------------------------------------
(* u8 arithmetic as the code uses it *)

\* 2^n for the shift amounts of a u8
Pow2(n) == <<1, 2, 4, 8, 16, 32, 64, 128, 256>>[n + 1]

\* a & b on u8, bit by bit
BitAnd(a, b) ==
      (a % 2) * (b % 2)
    + 2 * (((a \div 2) % 2) * ((b \div 2) % 2))
    + 4 * (((a \div 4) % 2) * ((b \div 4) % 2))
    + 8 * (((a \div 8) % 2) * ((b \div 8) % 2))
    + 16 * (((a \div 16) % 2) * ((b \div 16) % 2))
    + 32 * (((a \div 32) % 2) * ((b \div 32) % 2))
    + 64 * (((a \div 64) % 2) * ((b \div 64) % 2))
    + 128 * (((a \div 128) % 2) * ((b \div 128) % 2))

\* a | b on u8: the bits of either
BitOr(a, b) == a + b - BitAnd(a, b)

\* a << n on u8 (bits shifted out are lost)
Shl(a, n) == (a * Pow2(n)) % 256

\* a >> n on u8
Shr(a, n) == a \div Pow2(n)

-----------------------------------------------------------------------------
(* sprites/mod.rs: Error, Tile *)

Err(kind, msg) == [kind |-> kind, msg |-> msg]

Ok(kind, value) == [kind |-> kind, value |-> value]

None == <<>>

Some(x) == <<x>>

Tile(name, data) == [name |-> name, data |-> data]

TileBytes == 64

\* bytepair with the high bit of the last pixel left where it is (no >> 1)
bytepair_unshifted_last(row) ==
    LET byte1 ==
            BitOr(BitOr(BitOr(BitOr(BitOr(BitOr(BitOr(
                Shl(BitAnd(row[1], 1), 7),
                Shl(BitAnd(row[2], 1), 6)),
                Shl(BitAnd(row[3], 1), 5)),
                Shl(BitAnd(row[4], 1), 4)),
                Shl(BitAnd(row[5], 1), 3)),
                Shl(BitAnd(row[6], 1), 2)),
                Shl(BitAnd(row[7], 1), 1)),
                BitAnd(row[8], 1))
        byte2 ==
            BitOr(BitOr(BitOr(BitOr(BitOr(BitOr(BitOr(
                Shl(BitAnd(row[1], 2), 6),
                Shl(BitAnd(row[2], 2), 5)),
                Shl(BitAnd(row[3], 2), 4)),
                Shl(BitAnd(row[4], 2), 3)),
                Shl(BitAnd(row[5], 2), 2)),
                Shl(BitAnd(row[6], 2), 1)),
                BitAnd(row[7], 2)),
                BitAnd(row[8], 2))
    IN  <<byte1, byte2>>

\* one row of eight pixels -> [byte1, byte2]   (row is 1-indexed here, row[0] is r[1])
bytepair(row) ==
    LET byte1 ==
            BitOr(BitOr(BitOr(BitOr(BitOr(BitOr(BitOr(
                Shl(BitAnd(row[1], 1), 7),
                Shl(BitAnd(row[2], 1), 6)),
                Shl(BitAnd(row[3], 1), 5)),
                Shl(BitAnd(row[4], 1), 4)),
                Shl(BitAnd(row[5], 1), 3)),
                Shl(BitAnd(row[6], 1), 2)),
                Shl(BitAnd(row[7], 1), 1)),
                BitAnd(row[8], 1))
        byte2 ==
            BitOr(BitOr(BitOr(BitOr(BitOr(BitOr(BitOr(
                Shl(BitAnd(row[1], 2), 6),
                Shl(BitAnd(row[2], 2), 5)),
                Shl(BitAnd(row[3], 2), 4)),
                Shl(BitAnd(row[4], 2), 3)),
                Shl(BitAnd(row[5], 2), 2)),
                Shl(BitAnd(row[6], 2), 1)),
                BitAnd(row[7], 2)),
                Shr(BitAnd(row[8], 2), 1))
    IN  <<byte1, byte2>>

\* bytes.chunks(8): the rows of a block whose length is a multiple of 8
chunks8(bytes) == [r \in 1..(Len(bytes) \div 8) |-> SubSeq(bytes, 8 * (r - 1) + 1, 8 * r)]

\* planar with the two bytes of each row kept next to each other
planar_interleaved(bytepairs) ==
    [i \in 1..(2 * Len(bytepairs)) |-> bytepairs[(i + 1) \div 2][2 - (i % 2)]]

\* first_bytes chained with second_bytes
planar(bytepairs) ==
    [r \in 1..Len(bytepairs) |-> bytepairs[r][1]] \o [r \in 1..Len(bytepairs) |-> bytepairs[r][2]]

\* from_bytes with the palette check before the length check
from_bytes_palette_first(bytes, name) ==
    IF \E i \in 1..Len(bytes) : bytes[i] > 3
    THEN Err("PaletteError", <<"Byte out of bounds; needs to be under 4, got">>)
    ELSE IF Len(bytes) # TileBytes
    THEN Err("DimensionsError", <<"Need bytes array of size 64, got", Len(bytes)>>)
    ELSE Ok("Tile", Tile(name, planar([r \in 1..8 |-> bytepair(chunks8(bytes)[r])])))

from_bytes(bytes, name) ==
    IF Len(bytes) # TileBytes
    THEN Err("DimensionsError", <<"Need bytes array of size 64, got", Len(bytes)>>)
    ELSE IF \E i \in 1..Len(bytes) : bytes[i] > 3
    THEN LET i == CHOOSE i \in 1..Len(bytes) :
                      bytes[i] > 3 /\ \A j \in 1..(i - 1) : ~(bytes[j] > 3)
         IN  Err("PaletteError", <<"Byte out of bounds; needs to be under 4, got", bytes[i]>>)
    ELSE LET rows == chunks8(bytes)
             bytepairs == [r \in 1..Len(rows) |-> bytepair(rows[r])]
         IN  Ok("Tile", Tile(name, planar(bytepairs)))

\* Tile::iter
iter(tile) == [row |-> 0]

\* x += 1 on a u8: the sum when it fits; on overflow a debug build panics and a
\* release build wraps
u8_incr(x) == IF x < 255 THEN {[panic |-> FALSE, v |-> x + 1]}
              ELSE {[panic |-> TRUE, v |-> x], [panic |-> FALSE, v |-> 0]}

\* TileIterator::next taking the second plane from the next byte, not from row + 8
TileIterator_next_adjacent(it, tile) ==
    { LET row == it.row
      IN  IF inc.panic THEN [panic |-> TRUE, it |-> it, item |-> None]
          ELSE IF row > 7 THEN [panic |-> FALSE, it |-> [row |-> inc.v], item |-> None]
          ELSE [panic |-> FALSE, it |-> [row |-> inc.v],
                item |-> Some([column |-> 0,
                               bytes |-> <<tile.data[row + 1], tile.data[row + 1 + 1]>>])]
      : inc \in u8_incr(it.row) }

\* TileIterator::next: the set of outcomes [panic, it, item]
TileIterator_next(it, tile) ==
    { LET row == it.row
      IN  IF inc.panic THEN [panic |-> TRUE, it |-> it, item |-> None]
          ELSE IF row > 7 THEN [panic |-> FALSE, it |-> [row |-> inc.v], item |-> None]
          ELSE [panic |-> FALSE, it |-> [row |-> inc.v],
                item |-> Some([column |-> 0,
                               bytes |-> <<tile.data[row + 1], tile.data[row + 8 + 1]>>])]
      : inc \in u8_incr(it.row) }

\* TileRowIterator::next: the set of outcomes [panic, it, item]
TileRowIterator_next(it) ==
    { LET column == it.column
      IN  IF inc.panic THEN [panic |-> TRUE, it |-> it, item |-> None]
          ELSE IF column > 7
          THEN [panic |-> FALSE, it |-> [it EXCEPT !.column = inc.v], item |-> None]
          ELSE LET andmask == Shl(1, 7 - column)
                   first == Shr(BitAnd(andmask, it.bytes[1]), 7 - column)
                   second == Shl(Shr(BitAnd(andmask, it.bytes[2]), 7 - column), 1)
               IN  [panic |-> FALSE, it |-> [it EXCEPT !.column = inc.v],
                    item |-> Some(BitOr(first, second))]
      : inc \in u8_incr(it.column) }

-----------------------------------------------------------------------------
(* sprites/sheet.rs: the sheet descriptors and their extractors *)

Fill(value, name, count) ==
    [type |-> "Fill", value |-> value, name |-> name, count |-> count]

Simple(file, name, width, height) ==
    [type |-> "Simple", file |-> file, name |-> name, width |-> width, height |-> height]

Animation(file, name, frame_width, frame_height, frames) ==
    [type |-> "Animation", file |-> file, name |-> name, frame_width |-> frame_width,
     frame_height |-> frame_height, frames |-> frames]

Slice(file, name, width, height, slices) ==
    [type |-> "Slice", file |-> file, name |-> name, width |-> width, height |-> height,
     slices |-> slices]

\* lodepng::decode_file(path, PALETTE, 8): what the file system holds at path
decode_file(files, path) == files[path]

RECURSIVE ConcatAll(_)
\* the sequences of seqs one after the other
ConcatAll(seqs) ==
    IF seqs = <<>> THEN <<>>
    ELSE IF Len(seqs) = 1 THEN seqs[1]
    ELSE ConcatAll(SubSeq(seqs, 1, Len(seqs) \div 2))
         \o ConcatAll(SubSeq(seqs, (Len(seqs) \div 2) + 1, Len(seqs)))

\* a Vec filled by push in index order
vec(f) == SubSeq(f, 1, Len(f))

\* tiles.push(Tile::from_bytes(..)?) in a loop: the first error, or all the tiles
collect_tiles(results) ==
    IF \E i \in 1..Len(results) : results[i].kind # "Tile"
    THEN results[CHOOSE i \in 1..Len(results) :
                    /\ results[i].kind # "Tile"
                    /\ \A j \in 1..(i - 1) : results[j].kind = "Tile"]
    ELSE Ok("Tiles", vec([n \in 1..Len(results) |-> results[n].value]))

\* the 64 bytes of the 8x8 block at tile (column, row) of the bitmap
block_bytes(bitmap, column, row) ==
    LET y_offset == bitmap.width * row * 8
        x_offset == column * 8
    IN  ConcatAll([l \in 1..8 |->
            LET offset == y_offset + x_offset + ((l - 1) * bitmap.width)
            IN  SubSeq(bitmap.buffer, offset + 1, offset + 8)])

\* load_tiles without the scan of the whole buffer, leaving the palette to from_bytes
load_tiles_no_scan(width, height, image_path, name, files) ==
    LET image_result == decode_file(files, image_path)
    IN  IF image_result.kind = "Err" THEN Err("PNGError", image_result.msg)
        ELSE IF image_result.kind # "RawData"
        THEN Err("FormatError", "Image format was incorrect")
        ELSE LET bitmap == image_result.bitmap
             IN  IF bitmap.width < width * 8
                 THEN Err("DimensionsError",
                          "Image too thin, need " \o ToString(width * 8) \o ", got "
                              \o ToString(bitmap.width) \o ".")
                 ELSE IF bitmap.height < height * 8
                 THEN Err("DimensionsError",
                          "Image too short, need " \o ToString(height * 8) \o ", got "
                              \o ToString(bitmap.height) \o ".")
                 ELSE collect_tiles(vec(
                          [n \in 1..(height * width) |->
                              from_bytes(block_bytes(bitmap, (n - 1) % width,
                                                     (n - 1) \div width),
                                         Some(name))]))

\* LoadTiles::load_tiles
load_tiles(width, height, image_path, name, files) ==
    LET image_result == decode_file(files, image_path)
    IN  IF image_result.kind = "Err" THEN Err("PNGError", image_result.msg)
        ELSE IF image_result.kind # "RawData"
        THEN Err("FormatError", "Image format was incorrect")
        ELSE LET bitmap == image_result.bitmap
             IN  IF bitmap.width < width * 8
                 THEN Err("DimensionsError",
                          "Image too thin, need " \o ToString(width * 8) \o ", got "
                              \o ToString(bitmap.width) \o ".")
                 ELSE IF bitmap.height < height * 8
                 THEN Err("DimensionsError",
                          "Image too short, need " \o ToString(height * 8) \o ", got "
                              \o ToString(bitmap.height) \o ".")
                 ELSE IF \E i \in 1..Len(bitmap.buffer) : bitmap.buffer[i] > 3
                 THEN LET i == CHOOSE i \in 1..Len(bitmap.buffer) :
                                   /\ bitmap.buffer[i] > 3
                                   /\ \A j \in 1..(i - 1) : ~(bitmap.buffer[j] > 3)
                      IN  Err("PaletteError",
                              "Image has a byte out of bounds; needs to be under 4, got "
                                  \o ToString(bitmap.buffer[i]) \o ".")
                 ELSE collect_tiles(vec(
                          [n \in 1..(height * width) |->
                              from_bytes(block_bytes(bitmap, (n - 1) % width,
                                                     (n - 1) \div width),
                                         Some(name))]))

\* Fill::pull_tiles giving each tile a numbered name
Fill_pull_tiles_numbered(self) ==
    IF self.value > 3
    THEN Err("FormatError",
             "Value must be between 0 and 3, but was " \o ToString(self.value))
    ELSE LET data == [i \in 1..64 |-> self.value]
             tile == from_bytes(data, Some(self.name))
         IN  IF tile.kind # "Tile" THEN tile
             ELSE Ok("Tiles", [i \in 1..self.count |->
                                  Tile(Some(self.name \o "_" \o ToString(i - 1)),
                                       tile.value.data)])

\* Fill::pull_tiles testing the value only when tiles are asked for
Fill_pull_tiles_checks_when_counted(self) ==
    IF self.value > 3 /\ self.count > 0
    THEN Err("FormatError",
             "Value must be between 0 and 3, but was " \o ToString(self.value))
    ELSE IF self.count = 0 THEN Ok("Tiles", <<>>)
    ELSE Ok("Tiles", [i \in 1..self.count |->
                         from_bytes([j \in 1..64 |-> self.value], Some(self.name)).value])

\* Fill::pull_tiles without its own test of the value
Fill_pull_tiles_unchecked(self) ==
    LET data == [i \in 1..64 |-> self.value]
        tile == from_bytes(data, Some(self.name))
    IN  IF tile.kind # "Tile" THEN tile
        ELSE Ok("Tiles", [i \in 1..self.count |-> tile.value])

\* Fill::pull_tiles
Fill_pull_tiles(self) ==
    IF self.value > 3
    THEN Err("FormatError",
             "Value must be between 0 and 3, but was " \o ToString(self.value))
    ELSE LET data == [i \in 1..64 |-> self.value]
             tile == from_bytes(data, Some(self.name))
         IN  IF tile.kind # "Tile" THEN tile
             ELSE Ok("Tiles", [i \in 1..self.count |-> tile.value])

\* Simple::pull_tiles reading the pool column by column
Simple_pull_tiles_column_major(self, files) ==
    LET tiles == load_tiles(self.width, self.height, self.file, self.name, files)
    IN  IF tiles.kind # "Tiles" THEN tiles
        ELSE LET width == self.width
                 height == self.height
             IN  Ok("Tiles",
                    [n \in 1..(height * width) |->
                        LET x == (n - 1) % width
                            y == (n - 1) \div width
                            tile_number == (x * height) + y
                        IN  Tile(Some(self.name \o "_" \o ToString(x) \o "_" \o ToString(y)),
                                 tiles.value[tile_number + 1].data)])

\* Simple::pull_tiles
Simple_pull_tiles(self, files) ==
    LET tiles == load_tiles(self.width, self.height, self.file, self.name, files)
    IN  IF tiles.kind # "Tiles" THEN tiles
        ELSE LET width == self.width
                 height == self.height
             IN  Ok("Tiles",
                    [n \in 1..(height * width) |->
                        LET x == (n - 1) % width
                            y == (n - 1) \div width
                            tile_number == (y * width) + x
                        IN  Tile(Some(self.name \o "_" \o ToString(x) \o "_" \o ToString(y)),
                                 tiles.value[tile_number + 1].data)])

\* Animation::pull_tiles taking the pool in its own raster order
Animation_pull_tiles_raster(self, files) ==
    LET tiles == load_tiles(self.frame_width * self.frames, self.frame_height,
                            self.file, self.name, files)
    IN  IF tiles.kind # "Tiles" THEN tiles
        ELSE LET per_frame == self.frame_height * self.frame_width
             IN  Ok("Tiles",
                    [n \in 1..(self.frames * per_frame) |->
                        LET frame == (n - 1) \div per_frame
                            y == ((n - 1) % per_frame) \div self.frame_width
                            x == ((n - 1) % per_frame) % self.frame_width
                            frame_tile_number == y * self.frame_width + x
                        IN  Tile(Some(self.name \o "_" \o ToString(frame) \o "_"
                                          \o ToString(frame_tile_number)),
                                 tiles.value[n].data)])

\* Animation::pull_tiles
Animation_pull_tiles(self, files) ==
    LET tiles == load_tiles(self.frame_width * self.frames, self.frame_height,
                            self.file, self.name, files)
    IN  IF tiles.kind # "Tiles" THEN tiles
        ELSE LET sheet_width == self.frame_width * self.frames
                 per_frame == self.frame_height * self.frame_width
             IN  Ok("Tiles",
                    [n \in 1..(self.frames * per_frame) |->
                        LET frame == (n - 1) \div per_frame
                            y == ((n - 1) % per_frame) \div self.frame_width
                            x == ((n - 1) % per_frame) % self.frame_width
                            frame_offset == frame * self.frame_width
                            y_offset == y * sheet_width
                            tile_number == frame_offset + y_offset + x
                            frame_tile_number == y * self.frame_width + x
                        IN  Tile(Some(self.name \o "_" \o ToString(frame) \o "_"
                                          \o ToString(frame_tile_number)),
                                 tiles.value[tile_number + 1].data)])

\* Slice::pull_tiles with the slice number and the tile number swapped in the name
Slice_pull_tiles_swapped_name(self, files) ==
    LET tiles == load_tiles(self.width, self.height, self.file, self.name, files)
    IN  IF tiles.kind # "Tiles" THEN tiles
        ELSE IF \E s \in 1..Len(self.slices) : \E p \in 1..Len(self.slices[s]) :
                    self.slices[s][p] >= Len(tiles.value)
        THEN [kind |-> "Panic", msg |-> "index out of bounds"]
        ELSE Ok("Tiles",
                ConcatAll([s \in 1..Len(self.slices) |->
                    [p \in 1..Len(self.slices[s]) |->
                        Tile(Some(self.name \o "_" \o ToString(p - 1) \o "_" \o ToString(s - 1)),
                             tiles.value[self.slices[s][p] + 1].data)]]))

\* Slice::pull_tiles; tiles[*slice_tile] panics on an index outside the pool
Slice_pull_tiles(self, files) ==
    LET tiles == load_tiles(self.width, self.height, self.file, self.name, files)
    IN  IF tiles.kind # "Tiles" THEN tiles
        ELSE IF \E s \in 1..Len(self.slices) : \E p \in 1..Len(self.slices[s]) :
                    self.slices[s][p] >= Len(tiles.value)
        THEN [kind |-> "Panic", msg |-> "index out of bounds"]
        ELSE Ok("Tiles",
                ConcatAll([s \in 1..Len(self.slices) |->
                    [p \in 1..Len(self.slices[s]) |->
                        Tile(Some(self.name \o "_" \o ToString(s - 1) \o "_" \o ToString(p - 1)),
                             tiles.value[self.slices[s][p] + 1].data)]]))

-----------------------------------------------------------------------------
(* sprites/mod.rs: PatternTable *)

PageSize == 256

\* the match of from_sheet_pattern_table: it has arms for Animation, Slice and
\* Simple and none for Fill, so a Fill sheet is not extracted
match_pull_tiles(sheet, files) ==
    CASE sheet.type = "Animation" -> Animation_pull_tiles(sheet, files)
      [] sheet.type = "Slice" -> Slice_pull_tiles(sheet, files)
      [] sheet.type = "Simple" -> Simple_pull_tiles(sheet, files)
      [] OTHER -> [kind |-> "NoMatchArm", msg |-> sheet.type]

RECURSIVE extend_each(_, _, _, _)
\* extend_with putting the new tiles in front of the page
extend_with_prepend(tiles, sheets, files, page, pulled) ==
    IF tiles.kind # "Tiles"
    THEN [result |-> tiles, pulled |-> Append(pulled, Head(sheets))]
    ELSE extend_each(Tail(sheets), files, tiles.value \o page, Append(pulled, Head(sheets)))

\* let tiles = match sheet {..}?; page.extend(tiles); and on to the next sheet
extend_with(tiles, sheets, files, page, pulled) ==
    IF tiles.kind # "Tiles"
    THEN [result |-> tiles, pulled |-> Append(pulled, Head(sheets))]
    ELSE extend_each(Tail(sheets), files, page \o tiles.value, Append(pulled, Head(sheets)))

\* for sheet in sheets { .. }: gives [result, pulled], the page or the first error,
\* and the sheets pulled
extend_each(sheets, files, page, pulled) ==
    IF sheets = <<>> THEN [result |-> Ok("Tiles", page), pulled |-> pulled]
    ELSE extend_with(match_pull_tiles(Head(sheets), files), sheets, files, page, pulled)

\* pad stopping one tile short
pad_short(page, blank) == page \o [i \in 1..(PageSize - 1 - Len(page)) |-> blank]

\* while page.len() < 256 { page.push(blank.clone()) }
pad(page, blank) == page \o [i \in 1..(PageSize - Len(page)) |-> blank]

\* check_and_pad reporting an overflow of the right page as one of the left page
check_and_pad_left_named(left, right, pulled) ==
    IF Len(left) > PageSize \/ Len(right) > PageSize
    THEN [result |-> Err("DimensionsError",
              "left table contained too many tiles. Can not exceed 256, but has "
                  \o ToString(Len(left))),
          pulled |-> pulled]
    ELSE [result |-> Ok("PatternTable",
                        [left |-> pad(left, Tile(None, [i \in 1..16 |-> 0])),
                         right |-> pad(right, Tile(None, [i \in 1..16 |-> 0]))]),
          pulled |-> pulled]

\* the capacity checks and the padding, once both pages are extracted
check_and_pad(left, right, pulled) ==
    IF Len(left) > PageSize
    THEN [result |-> Err("DimensionsError",
              "left table contained too many tiles. Can not exceed 256, but has "
                  \o ToString(Len(left))),
          pulled |-> pulled]
    ELSE IF Len(right) > PageSize
    THEN [result |-> Err("DimensionsError",
              "right table contained too many tiles. Can not exceed 256, but has "
                  \o ToString(Len(right))),
          pulled |-> pulled]
    ELSE [result |-> Ok("PatternTable",
                        [left |-> pad(left, Tile(None, [i \in 1..16 |-> 0])),
                         right |-> pad(right, Tile(None, [i \in 1..16 |-> 0]))]),
          pulled |-> pulled]

\* the loop over sheet_table.right and what follows it
after_right(l, r) ==
    IF r.result.kind # "Tiles" THEN r
    ELSE check_and_pad(l.result.value, r.result.value, r.pulled)

\* after_left testing the capacity of the left page before the right page is extracted
after_left_checks_first(l, sheet_table, files) ==
    IF l.result.kind # "Tiles" THEN l
    ELSE IF Len(l.result.value) > PageSize
    THEN check_and_pad(l.result.value, <<>>, l.pulled)
    ELSE after_right(l, extend_each(sheet_table.right, files, <<>>, l.pulled))

\* what follows the loop over sheet_table.left
after_left(l, sheet_table, files) ==
    IF l.result.kind # "Tiles" THEN l
    ELSE after_right(l, extend_each(sheet_table.right, files, <<>>, l.pulled))

\* PatternTable::from_sheet_pattern_table, with the sheets it pulled
from_sheet_pattern_table(sheet_table, files) ==
    after_left(extend_each(sheet_table.left, files, <<>>, <<>>), sheet_table, files)

\* for tile in tiles { writer.write(&tile.data); }
\* Write::write takes a prefix of the 16 bytes, here at most writer.accepts of them,
\* and the count it returns is dropped
write_tiles(tiles, writer) ==
    LET n == IF 16 < writer.accepts THEN 16 ELSE writer.accepts
    IN  [writer EXCEPT !.written =
            @ \o [k \in 1..(Len(tiles) * n) |->
                     tiles[((k - 1) \div n) + 1].data[((k - 1) % n) + 1]]]

\* PatternTable::write with the right page first
PatternTable_write_right_first(self, writer) ==
    write_tiles(self.left, write_tiles(self.right, writer))

\* PatternTable::write
PatternTable_write(self, writer) == write_tiles(self.right, write_tiles(self.left, writer))

-----------------------------------------------------------------------------
(* spritesheetc.rs and binaries/spritesheetc.rs: run *)

\* Config, with the module whose run is called and the manifest behind input
Config(module, manifest, chr, header, asm, prefix) ==
    [module |-> module, manifest |-> manifest, chr |-> chr, header |-> header,
     asm |-> asm, prefix |-> prefix]

\* a path without file
Absent == [exists |-> FALSE, data |-> <<>>]

\* a file and its content
FileOf(data) == [exists |-> TRUE, data |-> data]

\* File::create(filename) for Some(filename): the file is created, or truncated when
\* it exists
File_create(fs, path) ==
    IF path = None THEN fs ELSE [fs EXCEPT ![path[1]] = FileOf(<<>>)]

\* the lines of the named tiles of one page
defines(keyword, prefix, page, tiles) ==
    ConcatAll([k \in 1..Len(tiles) |->
        IF tiles[k].name = None THEN <<>>
        ELSE <<<<keyword, prefix, page, tiles[k].name[1], ToString(k - 1)>>>>])

\* the lines written to the C header
c_header_lines(prefix, pattern_table) ==
    <<<<"#ifndef">>, <<"#define">>>>
    \o defines("#define", prefix, "LEFT", pattern_table.left)
    \o defines("#define", prefix, "RIGHT", pattern_table.right)
    \o <<<<"#endif">>>>

\* the lines written to the ASM header
asm_header_lines(prefix, pattern_table) ==
    <<<<".ifndef">>, <<"= 1">>>>
    \o defines("=", prefix, "LEFT", pattern_table.left)
    \o defines("=", prefix, "RIGHT", pattern_table.right)
    \o <<<<".endif">>>>

\* writeln! of the lines to the file at path, for Some(path)
write_lines(fs, path, file_lines) ==
    IF path = None THEN fs
    ELSE [fs EXCEPT ![path[1]] = FileOf(fs[path[1]].data \o file_lines)]

\* pattern_table.write(&mut chr): to the CHR file, or to stdout without one
write_chr(fs, path, pattern_table) ==
    LET target == IF path = None THEN "stdout" ELSE path[1]
    IN  [fs EXCEPT ![target] = FileOf(
            PatternTable_write(pattern_table,
                               [accepts |-> 4096, written |-> fs[target].data]).written)]

-----------------------------------------------------------------------------
(* stage/serialize.rs: the stage compiler *)

Horizontal == "Horizontal"

Vertical == "Vertical"

Metatile(name, symbol, tiles, palette) ==
    [name |-> name, symbol |-> symbol, tiles |-> tiles, palette |-> palette]

Stage(orientation, background_palette, sprite_palette, metatiles, data) ==
    [orientation |-> orientation, background_palette |-> background_palette,
     sprite_palette |-> sprite_palette, metatiles |-> metatiles, data |-> data]

\* the character '\0'; a character is a string of its own
NUL == "\\0"

\* rle_body starting the count again at 1 after a full run
rle_body_reset_one(st, c, limit) ==
    IF c = st.current
    THEN IF st.count + 1 = limit
         THEN [current |-> NUL, count |-> 1,
               output |-> Append(st.output, <<st.current, st.count + 1>>)]
         ELSE [st EXCEPT !.count = @ + 1]
    ELSE [current |-> c, count |-> 1,
          output |-> IF st.count > 0 THEN Append(st.output, <<st.current, st.count>>)
                     ELSE st.output]

\* the body of  for &c in &chars[1..]  on the state [current, count, output]
rle_body(st, c, limit) ==
    IF c = st.current
    THEN IF st.count + 1 = limit
         THEN [current |-> NUL, count |-> 0,
               output |-> Append(st.output, <<st.current, st.count + 1>>)]
         ELSE [st EXCEPT !.count = @ + 1]
    ELSE [current |-> c, count |-> 1,
          output |-> IF st.count > 0 THEN Append(st.output, <<st.current, st.count>>)
                     ELSE st.output]

RECURSIVE rle_loop(_, _, _, _, _)
\* for &c in &chars[1..] { .. } over chars[lo..hi] (from 1), the first half of the
\* stretch and then the second; the test on half has TLC evaluate the first half
\* before it enters the second
rle_loop(chars, lo, hi, limit, st) ==
    IF lo > hi THEN st
    ELSE IF lo = hi THEN rle_body(st, chars[lo], limit)
    ELSE LET half == rle_loop(chars, lo, (lo + hi) \div 2, limit, st)
         IN  IF half.count >= 0
             THEN rle_loop(chars, ((lo + hi) \div 2) + 1, hi, limit, half)
             ELSE half

\* the push after the loop
rle_finish(st) ==
    IF st.count > 0 THEN Append(st.output, <<st.current, st.count>>) ELSE st.output

\* run_length_encode closing a run one character late
run_length_encode_late(chars, limit) ==
    IF Len(chars) > 0
    THEN rle_finish(rle_loop(chars, 2, Len(chars), limit + 1,
                             [current |-> chars[1], count |-> 1, output |-> <<>>]))
    ELSE <<>>

\* run_length_encode: the runs as pairs <<char, count>>
run_length_encode(chars, limit) ==
    IF Len(chars) > 0
    THEN rle_finish(rle_loop(chars, 2, Len(chars), limit,
                             [current |-> chars[1], count |-> 1, output |-> <<>>]))
    ELSE <<>>

\* a line without the "\r" of a closing "\r\n"
strip_cr(line) ==
    IF line # <<>> /\ line[Len(line)] = "\r" THEN SubSeq(line, 1, Len(line) - 1) ELSE line

\* where the lines of data end: at every "\n", and behind the last character when
\* that is not a "\n"
line_ends(data) ==
    {i \in 1..Len(data) : data[i] = "\n"}
    \cup (IF data # <<>> /\ data[Len(data)] # "\n" THEN {Len(data) + 1} ELSE {})

\* str::lines: the lines of data, line ends dropped, a closing line end optional
lines(data) ==
    LET ends == line_ends(data)
        at(k) == CHOOSE e \in ends : Cardinality({x \in ends : x < e}) = k - 1
    IN  vec([k \in 1..Cardinality(ends) |->
            LET line == SubSeq(data, (IF k = 1 THEN 0 ELSE at(k - 1)) + 1, at(k) - 1)
            IN  IF at(k) <= Len(data) THEN strip_cr(line) ELSE line])

\* self.metatiles.iter().enumerate().map(|(i, m)| (m.symbol, i as u8)).collect()
\* and metatiles.get(&c): of several metatiles with the symbol the last one counts
metatiles_get(metatiles, c) ==
    IF \A i \in 1..Len(metatiles) : metatiles[i].symbol # c THEN None
    ELSE LET i == CHOOSE i \in 1..Len(metatiles) :
                      /\ metatiles[i].symbol = c
                      /\ \A j \in (i + 1)..Len(metatiles) : metatiles[j].symbol # c
         IN  Some((i - 1) % 256)

\* outbyte without the mask on the index
outbyte_unmasked(count, index) == BitOr(Shl((count % 256) - 1, 4), index)

\* outbyte with the index in the high nibble and the length in the low one
outbyte_swapped(count, index) == BitOr(Shl(index, 4), BitAnd(15, (count % 256) - 1))

\* (count as u8) - 1 << 4 | 0x0F & index as u8
outbyte(count, index) == BitOr(Shl((count % 256) - 1, 4), BitAnd(15, index))

\* outbytes_of taking metatile 0 for a character without metatile
outbytes_of_default_zero(encoded, metatiles) ==
    ConcatAll([k \in 1..Len(encoded) |->
        LET index == metatiles_get(metatiles, encoded[k][1])
        IN  IF index = None THEN <<outbyte(encoded[k][2], 0)>>
            ELSE <<outbyte(encoded[k][2], index[1])>>])

\* for (c, count) in encoded { if let Some(&index) = metatiles.get(&c) { push } }
outbytes_of(encoded, metatiles) ==
    ConcatAll([k \in 1..Len(encoded) |->
        LET index == metatiles_get(metatiles, encoded[k][1])
        IN  IF index = None THEN <<>> ELSE <<outbyte(encoded[k][2], index[1])>>])

\* write.write(bytes)?: the writer takes a prefix of bytes, at most writer.accepts of them
write_bytes(writer, bytes) ==
    [writer EXCEPT !.written =
        @ \o SubSeq(bytes, 1, IF Len(bytes) < writer.accepts THEN Len(bytes)
                              ELSE writer.accepts)]

RECURSIVE write_metatiles(_, _, _, _)
\* for metatile in &self.metatiles { write palette; write tiles }, over the metatiles
\* lo..hi (from 1), the first half of the stretch and then the second; the test on
\* half has TLC evaluate the first half before it enters the second
write_metatiles(metatiles, lo, hi, writer) ==
    IF lo > hi THEN writer
    ELSE IF lo = hi
    THEN write_bytes(write_bytes(writer, <<metatiles[lo].palette>>), metatiles[lo].tiles)
    ELSE LET half == write_metatiles(metatiles, lo, (lo + hi) \div 2, writer)
         IN  IF half.accepts >= 0
             THEN write_metatiles(metatiles, ((lo + hi) \div 2) + 1, hi, half)
             ELSE half

\* write_header writing the sprite palette first
write_header_sprite_first(self, writer) ==
    write_metatiles(self.metatiles, 1, Len(self.metatiles),
        write_bytes(write_bytes(write_bytes(writer, self.sprite_palette),
                                self.background_palette),
                    <<Len(self.metatiles) % 256>>))

\* write_binary up to the metatile records
write_header(self, writer) ==
    write_metatiles(self.metatiles, 1, Len(self.metatiles),
        write_bytes(write_bytes(write_bytes(writer, self.background_palette),
                                self.sprite_palette),
                    <<Len(self.metatiles) % 256>>))

\* one round of  for iterator in &mut iterators { .. }  inside 'outer: loop:
\* [iterators, chars, broke]; an iterator is the number of characters it has yielded
horizontal_round(ls, iterators, chars) ==
    LET ended == {j \in 1..Len(ls) : iterators[j] >= Len(ls[j])}
        stop == IF ended = {} THEN Len(ls) + 1
                ELSE CHOOSE j \in ended : \A k \in ended : j <= k
    IN  [iterators |-> [j \in 1..Len(ls) |->
                           IF j < stop THEN iterators[j] + 1 ELSE iterators[j]],
         chars |-> chars \o [j \in 1..(stop - 1) |-> ls[j][iterators[j] + 1]],
         broke |-> ended # {}]

\* vertical_compose cutting every line at the length of the shortest
vertical_compose_cut(ls) ==
    ConcatAll([j \in 1..Len(ls) |->
        SubSeq(ls[j], 1, CHOOSE m \in 0..Len(ls[j]) :
                             /\ \A k \in 1..Len(ls) : m <= Len(ls[k])
                             /\ \E k \in 1..Len(ls) : m = Len(ls[k]))])

\* for iterator in iterators { for c in iterator { chars.push(c) } }
vertical_compose(ls) == ConcatAll(ls)

\* the stage body: its length as a byte, then the bytes
write_body(encoded, metatiles, writer) ==
    write_bytes(write_bytes(writer, <<Len(outbytes_of(encoded, metatiles)) % 256>>),
                outbytes_of(encoded, metatiles))

-----------------------------------------------------------------------------
(* Inputs of the tile codec run *)

\* the largest pixel value tried
MaxPixel == 4

\* block lengths tried: TileBytes - LenSlack .. TileBytes + LenSlack
LenSlack == 1

\* the block of the doc tests (nesdev)
DocBlock ==
    << 0, 1, 0, 0, 0, 0, 0, 3,
       1, 1, 0, 0, 0, 0, 3, 0,
       0, 1, 0, 0, 0, 3, 0, 0,
       0, 1, 0, 0, 3, 0, 0, 0,
       0, 0, 0, 3, 0, 2, 2, 0,
       0, 0, 3, 0, 0, 0, 0, 2,
       0, 3, 0, 0, 0, 0, 2, 0,
       3, 0, 0, 0, 0, 2, 2, 2 >>

\* the tile of the doc tests: 41 C2 44 48 10 20 40 80 01 02 04 08 16 21 42 87
DocData == <<65, 194, 68, 72, 16, 32, 64, 128, 1, 2, 4, 8, 22, 33, 66, 135>>

\* the value of the pixels around the one that is varied
Backgrounds == {0, 3}

Blocks ==
    {DocBlock, <<>>} \cup
    { [i \in 1..(TileBytes + d) |-> IF i = p THEN v ELSE bg] :
        d \in (0 - LenSlack)..LenSlack, p \in 1..(TileBytes + LenSlack),
        v \in 0..MaxPixel, bg \in Backgrounds }

ByteSamples == {0, 90, 195, 255}

RawTiles ==
    {Tile(None, DocData)} \cup
    { Tile(None, [i \in 1..16 |-> IF i = r + 1 THEN a ELSE IF i = r + 9 THEN b ELSE 0]) :
        r \in 0..7, a \in ByteSamples, b \in ByteSamples }

TInitBlock ==
    /\ t_pc = "start"
    /\ t_bytes \in {Some(b) : b \in Blocks}
    /\ t_result = None
    /\ t_tile = None
    /\ t_iter = None
    /\ t_rowiter = None
    /\ t_cur = <<>>
    /\ t_rows = <<>>

TInitTile ==
    /\ t_pc = "tile"
    /\ t_bytes = None
    /\ t_result = None
    /\ t_tile \in {Some(t) : t \in RawTiles}
    /\ t_iter = None
    /\ t_rowiter = None
    /\ t_cur = <<>>
    /\ t_rows = <<>>

TInit == TInitBlock \/ TInitTile

\* let r = Tile::from_bytes(&bytes, None)
FromBytes ==
    /\ t_pc = "start"
    /\ t_result' = Some(from_bytes(t_bytes[1], None))
    /\ IF t_result'[1].kind = "Tile"
       THEN t_tile' = Some(t_result'[1].value) /\ t_pc' = "tile"
       ELSE t_tile' = None /\ t_pc' = "failed"
    /\ UNCHANGED <<t_bytes, t_iter, t_rowiter, t_cur, t_rows>>
    /\ UNCHANGED <<disk, svars, pvars, gvars, ivars, rvars, cvars>>

\* let it = tile.iter()
Iter ==
    /\ t_pc = "tile"
    /\ t_iter' = Some(iter(t_tile[1]))
    /\ t_pc' = "rows"
    /\ UNCHANGED <<t_bytes, t_result, t_tile, t_rowiter, t_cur, t_rows>>
    /\ UNCHANGED <<disk, svars, pvars, gvars, ivars, rvars, cvars>>

\* it.next() of the outer collect()
TileIteratorNext ==
    /\ t_pc = "rows"
    /\ \E out \in TileIterator_next(t_iter[1], t_tile[1]) :
         /\ t_iter' = Some(out.it)
         /\ IF out.panic THEN t_pc' = "panic" /\ UNCHANGED <<t_rowiter, t_cur>>
            ELSE IF out.item = None THEN t_pc' = "done" /\ UNCHANGED <<t_rowiter, t_cur>>
            ELSE t_pc' = "row" /\ t_rowiter' = out.item /\ t_cur' = <<>>
    /\ UNCHANGED <<t_bytes, t_result, t_tile, t_rows>>
    /\ UNCHANGED <<disk, svars, pvars, gvars, ivars, rvars, cvars>>

\* row.next() of the inner collect()
TileRowIteratorNext ==
    /\ t_pc = "row"
    /\ \E out \in TileRowIterator_next(t_rowiter[1]) :
         /\ t_rowiter' = Some(out.it)
         /\ IF out.panic THEN t_pc' = "panic" /\ UNCHANGED <<t_cur, t_rows>>
            ELSE IF out.item = None
            THEN t_pc' = "rows" /\ t_rows' = Append(t_rows, t_cur) /\ UNCHANGED t_cur
            ELSE t_pc' = "row" /\ t_cur' = Append(t_cur, out.item[1]) /\ UNCHANGED t_rows
    /\ UNCHANGED <<t_bytes, t_result, t_tile, t_iter>>
    /\ UNCHANGED <<disk, svars, pvars, gvars, ivars, rvars, cvars>>

TNext == FromBytes \/ Iter \/ TileIteratorNext \/ TileRowIteratorNext

TIdle ==
    /\ t_pc = "idle" /\ t_bytes = None /\ t_result = None /\ t_tile = None
    /\ t_iter = None /\ t_rowiter = None /\ t_cur = <<>> /\ t_rows = <<>>

-----------------------------------------------------------------------------
(* Inputs of the sheet extraction run *)

\* sheet widths, heights and frame counts tried, in tiles: 0..MaxSheetDim
MaxSheetDim == 2

\* bitmap widths and heights tried, in pixels
ImageSizes == {7, 8, 16, 17, 24}

Seeds == {0, 1}

\* a pixel pattern in which the tiles of a bitmap differ from one another
Pattern(seed, px, py) ==
    LET c == px % 8
        r == py % 8
    IN  IF c = r THEN ((px \div 8) + seed) % 4
        ELSE IF c = 7 - r THEN (py \div 8) % 4
        ELSE (c + 2 * r + c * r + seed) % 4

\* a decoded bitmap; pixel number bad (from 1) holds 4, none does when bad = 0
Bitmap(width, height, seed, bad) ==
    [width |-> width, height |-> height,
     buffer |-> [i \in 1..(width * height) |->
                    IF i = bad THEN 4
                    ELSE Pattern(seed, (i - 1) % width, (i - 1) \div width)]]

RawData(bitmap) == [kind |-> "RawData", bitmap |-> bitmap]

Images ==
    { RawData(Bitmap(w, h, seed, bad)) :
        w \in ImageSizes, h \in ImageSizes, seed \in Seeds, bad \in {0} }
    \cup { RawData(Bitmap(w, h, 0, IF last THEN w * h ELSE 1)) :
        w \in ImageSizes, h \in ImageSizes, last \in BOOLEAN }
    \cup { [kind |-> "Err", msg |-> "failed to open file for reading"],
           [kind |-> "Other"] }

SimpleSheets ==
    { Simple("sheet.png", "name", w, h) : w \in 0..MaxSheetDim, h \in 0..MaxSheetDim }

SIdle == s_pc = "idle" /\ s_sheet = None /\ s_result = None

SInit(sheets) ==
    /\ s_pc = "start"
    /\ s_sheet \in {Some(sh) : sh \in sheets}
    /\ s_result = None
    /\ disk \in {[path \in {"sheet.png"} |-> image] : image \in Images}

\* let r = sprite.pull_tiles()  on a Simple
SimplePullTiles ==
    /\ s_pc = "start"
    /\ s_sheet[1].type = "Simple"
    /\ s_result' = Some(Simple_pull_tiles(s_sheet[1], disk))
    /\ s_pc' = "done"
    /\ UNCHANGED <<s_sheet, disk, tvars, pvars, gvars, ivars, rvars, cvars>>

\* the largest Fill value tried
MaxFillValue == 5

AnimationSheets ==
    { Animation("sheet.png", "name", fw, fh, f) :
        fw \in 0..MaxSheetDim, fh \in 0..MaxSheetDim, f \in 0..MaxSheetDim }

\* slices over a pool of up to four tiles: empty, repeated, unused and out-of-range
\* indices
SliceLists ==
    { <<>>, <<<<0>>>>, <<<<1, 0>>, <<0, 0, 3>>>>, <<<<>>, <<2>>>>, <<<<0, 4>>>>, <<<<1>>, <<5, 0>>>> }

SliceSheets ==
    { Slice("sheet.png", "name", w, h, sl) :
        w \in 1..MaxSheetDim, h \in 1..MaxSheetDim, sl \in SliceLists }

FillSheets ==
    { Fill(v, "name", n) : v \in 0..MaxFillValue, n \in 0..MaxSheetDim }

AllSheets == SimpleSheets \cup AnimationSheets \cup SliceSheets \cup FillSheets

\* let r = sprite.pull_tiles()  on an Animation
AnimationPullTiles ==
    /\ s_pc = "start"
    /\ s_sheet[1].type = "Animation"
    /\ s_result' = Some(Animation_pull_tiles(s_sheet[1], disk))
    /\ s_pc' = "done"
    /\ UNCHANGED <<s_sheet, disk, tvars, pvars, gvars, ivars, rvars, cvars>>

\* let r = sprite.pull_tiles()  on a Slice
SlicePullTiles ==
    /\ s_pc = "start"
    /\ s_sheet[1].type = "Slice"
    /\ s_result' = Some(Slice_pull_tiles(s_sheet[1], disk))
    /\ s_pc' = IF s_result'[1].kind = "Panic" THEN "panic" ELSE "done"
    /\ UNCHANGED <<s_sheet, disk, tvars, pvars, gvars, ivars, rvars, cvars>>

\* let r = sprite.pull_tiles()  on a Fill
FillPullTiles ==
    /\ s_pc = "start"
    /\ s_sheet[1].type = "Fill"
    /\ s_result' = Some(Fill_pull_tiles(s_sheet[1]))
    /\ s_pc' = "done"
    /\ UNCHANGED <<s_sheet, disk, tvars, pvars, gvars, ivars, rvars, cvars>>

-----------------------------------------------------------------------------
(* Inputs of the pattern table run *)

\* the most sheets of a SheetPatternTable, both pages together
MaxSheets == 2

TableFiles ==
    ("a.png" :> RawData(Bitmap(16, 16, 0, 0)))
    @@ ("missing.png" :> [kind |-> "Err", msg |-> "failed to open file for reading"])

\* a Slice of one slice with n indices into the four tiles of a.png
LongSlice(n) == Slice("a.png", "sl", 2, 2, <<[i \in 1..n |-> (i * i) % 4]>>)

TableSheets ==
    { Simple("a.png", "s", 1, 1),
      Animation("a.png", "an", 1, 1, 2),
      Fill(1, "f", 1),
      Simple("missing.png", "m", 1, 1) }
    \cup { LongSlice(n) : n \in (PageSize - 1)..(PageSize + 1) }

RECURSIVE SeqsUpTo(_, _)
\* the sequences over S of length at most n
SeqsUpTo(S, n) ==
    IF n = 0 THEN {<<>>}
    ELSE LET shorter == SeqsUpTo(S, n - 1)
         IN  shorter \cup {Append(q, x) : q \in shorter, x \in S}

SheetTables ==
    { [left |-> l, right |-> r] :
        <<l, r>> \in { lr \in SeqsUpTo(TableSheets, MaxSheets) \X SeqsUpTo(TableSheets, MaxSheets) :
                          Len(lr[1]) + Len(lr[2]) <= MaxSheets } }

\* the bytes of one write call that the writer takes
WriterAccepts == {9, 16, 4096}

PIdle ==
    /\ p_pc = "idle" /\ p_sheet_table = None /\ p_result = None
    /\ p_pulled = <<>> /\ p_writer = None

PInit ==
    /\ p_pc = "start"
    /\ p_sheet_table \in {Some(st) : st \in SheetTables}
    /\ p_result = None
    /\ p_pulled = <<>>
    /\ p_writer = None
    /\ disk = TableFiles

\* let r = PatternTable::from_sheet_pattern_table(sheet_pattern_table)
FromSheetPatternTable ==
    /\ p_pc = "start"
    /\ LET out == from_sheet_pattern_table(p_sheet_table[1], disk)
       IN  /\ p_result' = Some(out.result)
           /\ p_pulled' = out.pulled
           /\ p_pc' = IF out.result.kind = "PatternTable" THEN "built" ELSE "failed"
    /\ UNCHANGED <<p_sheet_table, p_writer, disk, tvars, svars, gvars, ivars, rvars, cvars>>

\* pattern_table.write(&mut chr)
Write ==
    /\ p_pc = "built"
    /\ \E accepts \in WriterAccepts :
         p_writer' = Some(PatternTable_write(p_result[1].value,
                                             [accepts |-> accepts, written |-> <<>>]))
    /\ p_pc' = "written"
    /\ UNCHANGED <<p_sheet_table, p_result, p_pulled, disk, tvars, svars, gvars, ivars, rvars, cvars>>

PNext == FromSheetPatternTable \/ Write

-----------------------------------------------------------------------------
(* Inputs of the stage run *)

\* the limit write_binary passes to run_length_encode
RunLimit == 16

\* the longest line of a grid
MaxLineLen == 2

\* the longest stretch of one character in a single-line stage
MaxRun == 17

GridLines == SeqsUpTo({"a", "b"}, MaxLineLen)

RECURSIVE Join(_)
\* the lines with "\n" between them
Join(ls) ==
    IF ls = <<>> THEN <<>>
    ELSE IF Len(ls) = 1 THEN ls[1]
    ELSE ls[1] \o <<"\n">> \o Join(Tail(ls))

\* grids of up to three lines, and the grid of the documentation with and without a
\* closing line end
GridTexts ==
    { Join(ls) : ls \in SeqsUpTo(GridLines, 3) }
    \cup { <<"a", "b", "\n", "c", "d">>, <<"a", "b", "\n", "c", "d", "\n">>,
           <<"a", "b", "\r", "\n", "c", "d", "\r", "\n">> }

Rep(c, n) == [i \in 1..n |-> c]

RunLens == {0, 1, RunLimit - 1, RunLimit, MaxRun}

\* one line of up to three stretches: of "a", of any character, of "a" or "b"
RunTexts ==
    { Rep("a", n1) \o Rep(c2, n2) \o Rep(c3, n3) :
        n1 \in RunLens, n2 \in RunLens, n3 \in RunLens,
        c2 \in {"a", "b", "x", NUL}, c3 \in {"a", "b"} }

CatA == <<Metatile("ma", "a", <<1, 2, 3, 4>>, 0)>>

CatAB == <<Metatile("ma", "a", <<1, 2, 3, 4>>, 0), Metatile("mb", "b", <<5, 6, 7, 8>>, 1)>>

CatABCD ==
    <<Metatile("ma", "a", <<1, 2, 3, 4>>, 0), Metatile("mb", "b", <<5, 6, 7, 8>>, 1),
      Metatile("mc", "c", <<9, 10, 11, 12>>, 2), Metatile("md", "d", <<13, 14, 15, 16>>, 3)>>

BackgroundPalette == [i \in 1..16 |-> i - 1]

SpritePalette == [i \in 1..16 |-> 15 + i]

\* the largest catalog tried
MaxMetatiles == 257

\* the symbol of the metatile at position i (from 1) of a numbered catalog
Symbol(i) == IF i = 1 THEN "a" ELSE IF i = 2 THEN "b" ELSE ToString(i)

\* a catalog of n metatiles with symbols of their own
Catalog(n) ==
    vec([i \in 1..n |-> Metatile("m", Symbol(i), <<i % 256, 0, 0, i \div 256>>, i % 4)])

\* "a" is the symbol of the first and of the last metatile
CatABA ==
    <<Metatile("ma", "a", <<1, 2, 3, 4>>, 0), Metatile("mb", "b", <<5, 6, 7, 8>>, 1),
      Metatile("ma2", "a", <<9, 10, 11, 12>>, 2)>>

Catalogs == {Catalog(16), Catalog(17), Catalog(256), Catalog(MaxMetatiles), CatABA}

\* two of one symbol, then one of another
SymbolTexts ==
    { <<Symbol(i), Symbol(i), Symbol(j)>> : i \in {1, 16, 17, 18, 256, 257},
                                          j \in {1, 16, 17, 18, 256, 257} }

\* the largest number of runs tried
MaxBody == 257

\* "a" and "b" in turn, n characters: n runs of one character
Alternating(n) == vec([i \in 1..n |-> IF i % 2 = 1 THEN "a" ELSE "b"])

LongTexts == { Alternating(n) : n \in {255, 256, MaxBody} }

Stages ==
    { Stage(o, BackgroundPalette, SpritePalette, CatABCD, t) :
        o \in {Horizontal, Vertical}, t \in GridTexts }
    \cup { Stage(Vertical, BackgroundPalette, SpritePalette, cat, t) :
        cat \in {CatA, CatAB}, t \in RunTexts }
    \cup { Stage(Vertical, BackgroundPalette, SpritePalette, cat, t) :
        cat \in Catalogs, t \in SymbolTexts }
    \cup { Stage(Vertical, BackgroundPalette, SpritePalette, CatAB, t) : t \in LongTexts }

\* the bytes of one write call that the writer takes
StageWriterAccepts == {3, 4096}

GIdle ==
    /\ g_pc = "idle" /\ g_stage = None /\ g_writer = None /\ g_iterators = <<>>
    /\ g_chars = <<>> /\ g_encoded = <<>> /\ g_result = None

GInit ==
    /\ g_pc = "start"
    /\ g_stage \in {Some(st) : st \in Stages}
    /\ g_writer \in {Some([accepts |-> n, written |-> <<>>]) : n \in StageWriterAccepts}
    /\ g_iterators = <<>>
    /\ g_chars = <<>>
    /\ g_encoded = <<>>
    /\ g_result = None

\* write_binary, the palettes, the metatile count, the metatile records; then
\* let mut iterators = self.data.lines().map(|line| line.chars()).collect()
WriteHeader ==
    /\ g_pc = "start"
    /\ g_writer' = Some(write_header(g_stage[1], g_writer[1]))
    /\ g_iterators' = [j \in 1..Len(lines(g_stage[1].data)) |-> 0]
    /\ g_chars' = <<>>
    /\ g_pc' = "linearize"
    /\ UNCHANGED <<g_stage, g_encoded, g_result, disk, tvars, svars, pvars, ivars, rvars, cvars>>

\* Orientation::Horizontal: one round of 'outer: loop, the for over the iterators;
\* with no iterator the round changes nothing
HorizontalRound ==
    /\ g_pc = "linearize"
    /\ g_stage[1].orientation = Horizontal
    /\ LET round == horizontal_round(lines(g_stage[1].data), g_iterators, g_chars)
       IN  /\ g_iterators' = round.iterators
           /\ g_chars' = round.chars
           /\ g_pc' = IF round.broke THEN "encode" ELSE "again"
    /\ UNCHANGED <<g_stage, g_writer, g_encoded, g_result, disk, tvars, svars, pvars, ivars, rvars, cvars>>

\* the end of the body of 'outer: loop, reached without break: back to its head
HorizontalAgain ==
    /\ g_pc = "again"
    /\ g_pc' = "linearize"
    /\ UNCHANGED <<g_stage, g_writer, g_iterators, g_chars, g_encoded, g_result>>
    /\ UNCHANGED <<disk, tvars, svars, pvars, ivars, rvars, cvars>>

\* Orientation::Vertical: every iterator drained in turn
VerticalCompose ==
    /\ g_pc = "linearize"
    /\ g_stage[1].orientation = Vertical
    /\ g_chars' = vertical_compose(lines(g_stage[1].data))
    /\ g_iterators' = [j \in 1..Len(g_iterators) |-> Len(lines(g_stage[1].data)[j])]
    /\ g_pc' = "encode"
    /\ UNCHANGED <<g_stage, g_writer, g_encoded, g_result, disk, tvars, svars, pvars, ivars, rvars, cvars>>

\* let encoded = run_length_encode(&chars, 16)
RunLengthEncode ==
    /\ g_pc = "encode"
    /\ g_encoded' = run_length_encode(g_chars, RunLimit)
    /\ g_pc' = "body"
    /\ UNCHANGED <<g_stage, g_writer, g_iterators, g_chars, g_result, disk, tvars, svars, pvars, ivars, rvars, cvars>>

\* the stage body and Ok(())
WriteBody ==
    /\ g_pc = "body"
    /\ g_writer' = Some(write_body(g_encoded, g_stage[1].metatiles, g_writer[1]))
    /\ g_result' = Some(Ok("Unit", <<>>))
    /\ g_pc' = "done"
    /\ UNCHANGED <<g_stage, g_iterators, g_chars, g_encoded, disk, tvars, svars, pvars, ivars, rvars, cvars>>

-----------------------------------------------------------------------------
(* Inputs of the iterator polls *)

PolledTiles == {Tile(None, DocData), Tile(None, [i \in 1..16 |-> 255])}

IIdle ==
    /\ i_pc = "idle" /\ i_tile = None /\ i_iter = None /\ i_last = None
    /\ i_fused = FALSE

\* a caller holding a fresh TileIterator or a fresh TileRowIterator
IInit ==
    /\ i_last = None
    /\ i_fused = FALSE
    /\ \/ /\ i_pc = "rows"
          /\ i_tile \in {Some(t) : t \in PolledTiles}
          /\ i_iter = Some(iter(i_tile[1]))
       \/ /\ i_pc = "row"
          /\ i_tile = None
          /\ i_iter \in {Some([column |-> 0, bytes |-> <<a, b>>]) :
                            a \in ByteSamples, b \in ByteSamples}

\* one more it.next() on the TileIterator, whatever it has returned so far
TileIteratorPoll ==
    /\ i_pc = "rows"
    /\ \E out \in TileIterator_next(i_iter[1], i_tile[1]) :
         IF out.panic THEN i_pc' = "panic" /\ UNCHANGED <<i_iter, i_last, i_fused>>
         ELSE /\ i_iter' = Some(out.it)
              /\ i_last' = out.item
              /\ i_fused' = (i_fused \/ out.item = None)
              /\ UNCHANGED i_pc
    /\ UNCHANGED <<i_tile, disk, tvars, svars, pvars, gvars, rvars, cvars>>

\* one more row.next() on the TileRowIterator, whatever it has returned so far
TileRowIteratorPoll ==
    /\ i_pc = "row"
    /\ \E out \in TileRowIterator_next(i_iter[1]) :
         IF out.panic THEN i_pc' = "panic" /\ UNCHANGED <<i_iter, i_last, i_fused>>
         ELSE /\ i_iter' = Some(out.it)
              /\ i_last' = out.item
              /\ i_fused' = (i_fused \/ out.item = None)
              /\ UNCHANGED i_pc
    /\ UNCHANGED <<i_tile, disk, tvars, svars, pvars, gvars, rvars, cvars>>

-----------------------------------------------------------------------------
(* Inputs of the run_length_encode call *)

\* the longest input of any characters
MaxChars == 5

\* the largest of the small limits
MaxLimit == 4

RleLimits == (2..MaxLimit) \cup {RunLimit}

\* all short inputs over two characters and the NUL character, and two stretches of
\* up to RunLimit + 1 characters
RleInputs ==
    SeqsUpTo({"a", "b", NUL}, MaxChars)
    \cup { Rep(c1, n1) \o Rep(c2, n2) :
             c1 \in {"a", NUL}, c2 \in {"a", "b", NUL},
             n1 \in {RunLimit - 1, RunLimit, RunLimit + 1},
             n2 \in {0, 1, RunLimit, RunLimit + 1} }

RIdle == r_pc = "idle" /\ r_chars = <<>> /\ r_limit = 0 /\ r_encoded = <<>>

RInit ==
    /\ r_pc = "start"
    /\ r_chars \in RleInputs
    /\ r_limit \in RleLimits
    /\ r_encoded = <<>>

\* let encoded = run_length_encode(&chars, limit)
RunLengthEncodeCall ==
    /\ r_pc = "start"
    /\ r_encoded' = run_length_encode(r_chars, r_limit)
    /\ r_pc' = "done"
    /\ UNCHANGED <<r_chars, r_limit, disk, tvars, svars, pvars, gvars, ivars, cvars>>

-----------------------------------------------------------------------------
(* Inputs of the spritesheetc run *)

Modules == {"spritesheetc", "binaries::spritesheetc"}

\* what is behind config.input: no file, no JSON, or the JSON of a table
Manifests ==
    { [kind |-> "NoFile"], [kind |-> "NoJson"] }
    \cup { [kind |-> "Json", table |-> st] :
             st \in { [left |-> <<Simple("a.png", "s", 1, 1)>>, right |-> <<>>],
                      [left |-> <<Animation("a.png", "an", 1, 1, 2)>>,
                       right |-> <<Simple("a.png", "s", 1, 1)>>],
                      [left |-> <<Simple("missing.png", "m", 1, 1)>>, right |-> <<>>],
                      [left |-> <<>>, right |-> <<LongSlice(PageSize + 1)>>] } }

Configs ==
    { Config(module, manifest, chr, header, asm, "P_") :
        module \in Modules, manifest \in Manifests,
        chr \in {None, Some("out.chr")}, header \in {None, Some("out.h")},
        asm \in {None, Some("out.inc")} }

\* the output paths before the run: each without file or with a file of an earlier run
OutputsBefore ==
    { ("out.chr" :> chr) @@ ("out.h" :> header) @@ ("out.inc" :> asm)
      @@ ("stdout" :> FileOf(<<>>)) :
        chr \in {Absent, FileOf(<<255>>)},
        header \in {Absent, FileOf(<<<<"old">>>>)},
        asm \in {Absent, FileOf(<<<<"old">>>>)} }

CInit ==
    /\ c_pc = "start"
    /\ c_config \in {Some(c) : c \in Configs}
    /\ c_before \in OutputsBefore
    /\ c_fs = c_before
    /\ c_table = None
    /\ c_result = None
    /\ disk = TableFiles

\* let input = match config.input { Some(filename) => File::open(filename)?, .. }
OpenInput ==
    /\ c_pc = "start"
    /\ IF c_config[1].manifest.kind = "NoFile"
       THEN c_pc' = "failed" /\ c_result' = Some(Err("IoError", "input"))
       ELSE c_pc' = "create_chr" /\ UNCHANGED c_result
    /\ UNCHANGED <<c_config, c_before, c_fs, c_table>>
    /\ UNCHANGED <<disk, tvars, svars, pvars, gvars, ivars, rvars>>

\* let mut chr = match config.chr { Some(filename) => File::create(filename)?, .. }
CreateChr ==
    /\ c_pc = "create_chr"
    /\ c_fs' = File_create(c_fs, c_config[1].chr)
    /\ c_pc' = IF c_config[1].module = "spritesheetc" THEN "create_headers" ELSE "load"
    /\ UNCHANGED <<c_config, c_before, c_table, c_result>>
    /\ UNCHANGED <<disk, tvars, svars, pvars, gvars, ivars, rvars>>

\* spritesheetc.rs: let header = .. File::create(filename)?; let asm = .. likewise
CreateHeaders ==
    /\ c_pc = "create_headers"
    /\ c_fs' = File_create(File_create(c_fs, c_config[1].header), c_config[1].asm)
    /\ c_pc' = "load"
    /\ UNCHANGED <<c_config, c_before, c_table, c_result>>
    /\ UNCHANGED <<disk, tvars, svars, pvars, gvars, ivars, rvars>>

\* let sheet_pattern_table: SheetPatternTable = serde_json::from_reader(input)?
LoadJson ==
    /\ c_pc = "load"
    /\ IF c_config[1].manifest.kind = "NoJson"
       THEN /\ c_pc' = "failed" /\ c_result' = Some(Err("JsonError", "manifest"))
            /\ UNCHANGED c_table
       ELSE /\ c_pc' = "build" /\ c_table' = Some(c_config[1].manifest.table)
            /\ UNCHANGED c_result
    /\ UNCHANGED <<c_config, c_before, c_fs>>
    /\ UNCHANGED <<disk, tvars, svars, pvars, gvars, ivars, rvars>>

\* let pattern_table = PatternTable::from_sheet_pattern_table(sheet_pattern_table)?
BuildTable ==
    /\ c_pc = "build"
    /\ LET built == from_sheet_pattern_table(c_table[1], disk).result
       IN  IF built.kind = "PatternTable"
           THEN c_pc' = "write_chr" /\ c_table' = Some(built.value) /\ UNCHANGED c_result
           ELSE c_pc' = "failed" /\ c_result' = Some(built) /\ UNCHANGED c_table
    /\ UNCHANGED <<c_config, c_before, c_fs>>
    /\ UNCHANGED <<disk, tvars, svars, pvars, gvars, ivars, rvars>>

\* pattern_table.write(&mut chr)
WriteChr ==
    /\ c_pc = "write_chr"
    /\ c_fs' = write_chr(c_fs, c_config[1].chr, c_table[1])
    /\ c_pc' = "headers"
    /\ UNCHANGED <<c_config, c_before, c_table, c_result>>
    /\ UNCHANGED <<disk, tvars, svars, pvars, gvars, ivars, rvars>>

\* the header files and Ok(()): spritesheetc.rs writes to the files it holds, the C
\* header and then the ASM header; binaries/spritesheetc.rs creates each file as it
\* writes it, the ASM header and then the C header
WriteHeaders ==
    /\ c_pc = "headers"
    /\ LET config == c_config[1]
           made == IF config.module = "spritesheetc" THEN c_fs
                   ELSE File_create(File_create(c_fs, config.asm), config.header)
       IN  c_fs' = write_lines(
                      write_lines(made, config.header,
                                  c_header_lines(config.prefix, c_table[1])),
                      config.asm, asm_header_lines(config.prefix, c_table[1]))
    /\ c_result' = Some(Ok("Unit", <<>>))
    /\ c_pc' = "done"
    /\ UNCHANGED <<c_config, c_before, c_table>>
    /\ UNCHANGED <<disk, tvars, svars, pvars, gvars, ivars, rvars>>

\* no run of spritesheetc
CIdle ==
    /\ c_pc = "idle" /\ c_config = None /\ c_before = <<>> /\ c_fs = <<>>
    /\ c_table = None /\ c_result = None

-----------------------------------------------------------------------------
(* The specifications: one per component *)

TileInit == TInit /\ disk = <<>> /\ SIdle /\ PIdle /\ GIdle /\ IIdle /\ RIdle /\ CIdle

TileNext == TNext

TileSpec == TileInit /\ [][TileNext]_vars

SimpleInit == SInit(SimpleSheets) /\ TIdle /\ PIdle /\ GIdle /\ IIdle /\ RIdle /\ CIdle

SimpleNext == SimplePullTiles

SimpleSpec == SimpleInit /\ [][SimpleNext]_vars

SheetInit == SInit(AllSheets) /\ TIdle /\ PIdle /\ GIdle /\ IIdle /\ RIdle /\ CIdle

SheetNext == SimplePullTiles \/ AnimationPullTiles \/ SlicePullTiles \/ FillPullTiles

SheetSpec == SheetInit /\ [][SheetNext]_vars

TableInit == PInit /\ TIdle /\ SIdle /\ GIdle /\ IIdle /\ RIdle /\ CIdle

TableNext == PNext

TableSpec == TableInit /\ [][TableNext]_vars

StageInit == GInit /\ disk = <<>> /\ TIdle /\ SIdle /\ PIdle /\ IIdle /\ RIdle /\ CIdle

StageNext ==
    \/ WriteHeader \/ HorizontalRound \/ HorizontalAgain \/ VerticalCompose
    \/ RunLengthEncode \/ WriteBody

StageSpec == StageInit /\ [][StageNext]_vars

\* grids of up to three lines of "a": no line, empty lines, lines of unequal lengths
LoopTexts == { Join(ls) : ls \in SeqsUpTo(SeqsUpTo({"a"}, MaxLineLen), 3) }

\* the stage runs on these grids, with a writer that takes every write in full
GridInit ==
    /\ StageInit
    /\ g_stage[1].data \in LoopTexts
    /\ g_writer[1].accepts = 4096

\* write_binary runs on one thread that is never suspended: while it has a next
\* statement, it takes it
StageFairSpec == GridInit /\ [][StageNext]_vars /\ WF_vars(StageNext)

PollInit == IInit /\ disk = <<>> /\ TIdle /\ SIdle /\ PIdle /\ GIdle /\ RIdle /\ CIdle

PollNext == TileIteratorPoll \/ TileRowIteratorPoll

PollSpec == PollInit /\ [][PollNext]_vars

RleInit == RInit /\ disk = <<>> /\ TIdle /\ SIdle /\ PIdle /\ GIdle /\ IIdle /\ CIdle

RleNext == RunLengthEncodeCall

RleSpec == RleInit /\ [][RleNext]_vars

RunInit == CInit /\ TIdle /\ SIdle /\ PIdle /\ GIdle /\ IIdle /\ RIdle

RunNext ==
    \/ OpenInput \/ CreateChr \/ CreateHeaders \/ LoadJson \/ BuildTable
    \/ WriteChr \/ WriteHeaders

RunSpec == RunInit /\ [][RunNext]_vars

-----------------------------------------------------------------------------

-----------------------------------------------------------------------------
(* The tile codec: properties *)

Bit(b, k) == (b \div Pow2(k)) % 2

RECURSIVE Flatten(_)
Flatten(rows) == IF rows = <<>> THEN <<>> ELSE Head(rows) \o Flatten(Tail(rows))

ValidBlock(b) == Len(b) = 64 /\ \A i \in 1..Len(b) : b[i] \in 0..3

\* pixel of a 64-value block at row r, column c (both 0..7)
Px(b, r, c) == b[8 * r + c + 1]

RECURSIVE PlaneByte(_, _, _, _)
\* the byte whose bit (7-c) is bit `plane` of the pixel in column c of row r
PlaneByte(b, r, plane, c) ==
    IF c > 7 THEN 0
    ELSE ((Px(b, r, c) \div Pow2(plane)) % 2) * Pow2(7 - c) + PlaneByte(b, r, plane, c + 1)

\* C1: packing a valid 64-value block with Tile::from_bytes and unpacking the tile
\* with Tile::iter, rows concatenated top to bottom, gives back the block.
C1_RoundTrip ==
    (t_pc = "done" /\ t_bytes # None) => Flatten(t_rows) = t_bytes[1]

C1_Witness ==
    t_pc = "done" /\ t_bytes = Some(DocBlock) /\ Len(Flatten(t_rows)) = 64

\* C2: for a valid block, data[r] holds the low bits of row r and data[r+8] the high
\* bits, leftmost pixel in bit 7; the documented block packs to the documented bytes.
C2_PlanarLayout ==
    (t_pc # "start" /\ t_bytes # None /\ ValidBlock(t_bytes[1])) =>
        /\ t_result # None /\ t_result[1].kind = "Tile"
        /\ Len(t_result[1].value.data) = 16
        /\ \A r \in 0..7 :
             /\ t_result[1].value.data[r + 1] = PlaneByte(t_bytes[1], r, 0, 0)
             /\ t_result[1].value.data[r + 8 + 1] = PlaneByte(t_bytes[1], r, 1, 0)
        /\ (t_bytes[1] = DocBlock => t_result[1].value.data = DocData)

C2_Witness ==
    t_bytes = Some(DocBlock) /\ t_result # None /\ t_result[1].kind = "Tile"

\* C3: Tile::iter on any 16-byte tile yields 8 rows of 8 values; the value at row r,
\* column c is (bit 7-c of data[r]) | (bit 7-c of data[r+8]) << 1, so it is in 0..3.
C3_Unpack ==
    /\ t_pc # "panic"
    /\ Len(t_rows) <= 8 /\ Len(t_cur) <= 8
    /\ t_pc = "done" =>
         /\ Len(t_rows) = 8
         /\ \A r \in 0..7 :
              /\ Len(t_rows[r + 1]) = 8
              /\ \A c \in 0..7 :
                   /\ t_rows[r + 1][c + 1] =
                        Bit(t_tile[1].data[r + 1], 7 - c) + 2 * Bit(t_tile[1].data[r + 8 + 1], 7 - c)
                   /\ t_rows[r + 1][c + 1] \in 0..3

C3_Witness ==
    /\ t_pc = "done" /\ t_bytes = None
    /\ \E r \in 1..8 : t_tile[1].data[r] = 195 /\ t_tile[1].data[r + 8] = 90

\* C4: Tile::from_bytes returns DimensionsError when the length is not 64 (whatever
\* the values), PaletteError when the length is 64 and a value exceeds 3, a Tile
\* otherwise; no Tile is produced on an error.
C4_FromBytesErrors ==
    (t_pc # "start" /\ t_bytes # None) =>
        /\ t_result # None
        /\ Len(t_bytes[1]) # 64 => (t_result[1].kind = "DimensionsError" /\ t_tile = None)
        /\ (Len(t_bytes[1]) = 64 /\ \E i \in 1..64 : t_bytes[1][i] > 3) =>
             (t_result[1].kind = "PaletteError" /\ t_tile = None)
        /\ (Len(t_bytes[1]) = 64 /\ \A i \in 1..64 : t_bytes[1][i] <= 3) =>
             (t_result[1].kind = "Tile" /\ t_tile = Some(t_result[1].value))

C4_Witness ==
    /\ t_pc = "failed" /\ Len(t_bytes[1]) = 63 /\ \E i \in 1..63 : t_bytes[1][i] > 3
    /\ t_result[1].kind = "DimensionsError"

-----------------------------------------------------------------------------
(* The pattern table builder: properties *)

RECURSIVE SumOver(_, _)
\* counts[1] + .. + counts[n]
SumOver(counts, n) == IF n = 0 THEN 0 ELSE counts[n] + SumOver(counts, n - 1)

\* the number of tiles a sheet stands for
SheetCount(sheet) ==
    CASE sheet.type = "Simple" -> sheet.width * sheet.height
      [] sheet.type = "Animation" -> sheet.frames * sheet.frame_width * sheet.frame_height
      [] sheet.type = "Slice" ->
            SumOver([k \in 1..Len(sheet.slices) |-> Len(sheet.slices[k])], Len(sheet.slices))
      [] sheet.type = "Fill" -> sheet.count

\* the number of tiles the sheets of a page stand for
PageCount(sheets) == SumOver([k \in 1..Len(sheets) |-> SheetCount(sheets[k])], Len(sheets))

\* the sheet's tile grid, in tiles
GridWidth(sheet) ==
    IF sheet.type = "Animation" THEN sheet.frame_width * sheet.frames ELSE sheet.width

GridHeight(sheet) ==
    IF sheet.type = "Animation" THEN sheet.frame_height ELSE sheet.height

\* an image-backed sheet whose image decodes, is large enough and holds only 0..3,
\* and whose slice indices are inside the grid
ImageSheetFine(sheet, files) ==
    /\ sheet.type \in {"Simple", "Animation", "Slice"}
    /\ files[sheet.file].kind = "RawData"
    /\ files[sheet.file].bitmap.width >= 8 * GridWidth(sheet)
    /\ files[sheet.file].bitmap.height >= 8 * GridHeight(sheet)
    /\ \A i \in 1..Len(files[sheet.file].bitmap.buffer) :
           files[sheet.file].bitmap.buffer[i] <= 3
    /\ sheet.type = "Slice" =>
           \A k \in 1..Len(sheet.slices) : \A q \in 1..Len(sheet.slices[k]) :
               sheet.slices[k][q] < sheet.width * sheet.height

FillFine(sheet) == sheet.type = "Fill" /\ sheet.value <= 3

AllImageSheetsFine(st, files) ==
    /\ \A k \in 1..Len(st.left) : ImageSheetFine(st.left[k], files)
    /\ \A k \in 1..Len(st.right) : ImageSheetFine(st.right[k], files)

AllSheetsFine(st, files) ==
    /\ \A k \in 1..Len(st.left) : ImageSheetFine(st.left[k], files) \/ FillFine(st.left[k])
    /\ \A k \in 1..Len(st.right) : ImageSheetFine(st.right[k], files) \/ FillFine(st.right[k])

\* the tiles a sheet's own extractor gives
SheetTiles(sheet, files) ==
    CASE sheet.type = "Simple" -> Simple_pull_tiles(sheet, files).value
      [] sheet.type = "Animation" -> Animation_pull_tiles(sheet, files).value
      [] sheet.type = "Slice" -> Slice_pull_tiles(sheet, files).value
      [] sheet.type = "Fill" -> Fill_pull_tiles(sheet).value

\* page holds, from the start, the tiles of sheets one sheet after the other, and
\* then unnamed all-zero tiles
PageIsPacked(page, sheets, files) ==
    /\ Len(page) >= PageCount(sheets)
    /\ \A k \in 1..Len(sheets) :
         LET offset == PageCount(SubSeq(sheets, 1, k - 1))
             tiles == SheetTiles(sheets[k], files)
         IN  /\ Len(tiles) = SheetCount(sheets[k])
             /\ \A j \in 1..Len(tiles) : page[offset + j] = tiles[j]
    /\ \A n \in (PageCount(sheets) + 1)..Len(page) :
         /\ page[n].name = None
         /\ page[n].data = <<0, 0, 0, 0, 0, 0, 0, 0, 0, 0, 0, 0, 0, 0, 0, 0>>

Built == p_result # None /\ p_result[1].kind = "PatternTable"

\* C5: whenever from_sheet_pattern_table returns Ok, the left page and the right page
\* each hold exactly 256 tiles, whatever the number of extracted tiles (0..256).
C5_PagesAre256 ==
    Built => (Len(p_result[1].value.left) = 256 /\ Len(p_result[1].value.right) = 256)

C5_Witness ==
    /\ Built
    /\ PageCount(p_sheet_table[1].left) = 255
    /\ PageCount(p_sheet_table[1].right) = 256
    /\ Len(p_result[1].value.left) = 256

\* the message of the capacity error for a page and a count
TooMany(page, n) ==
    page \o " table contained too many tiles. Can not exceed 256, but has " \o ToString(n)

\* C6: if the tiles extracted for a page number more than 256, the result is a
\* DimensionsError naming an overflowing page (the left one first) and that page's
\* tile count, and no PatternTable is returned.
C6_Overflow ==
    (p_pc # "start" /\ AllImageSheetsFine(p_sheet_table[1], disk)) =>
        LET nl == PageCount(p_sheet_table[1].left)
            nr == PageCount(p_sheet_table[1].right)
        IN  /\ nl > 256 =>
                 /\ p_result[1] = [kind |-> "DimensionsError", msg |-> TooMany("left", nl)]
                 /\ p_pc = "failed"
            /\ (nl <= 256 /\ nr > 256) =>
                 /\ p_result[1] = [kind |-> "DimensionsError", msg |-> TooMany("right", nr)]
                 /\ p_pc = "failed"

C6_Witness ==
    /\ p_pc = "failed"
    /\ AllImageSheetsFine(p_sheet_table[1], disk)
    /\ PageCount(p_sheet_table[1].left) = 1
    /\ PageCount(p_sheet_table[1].right) = 257
    /\ p_result[1].msg = "right table contained too many tiles. Can not exceed 256, but has 257"

\* C7: on success each page begins with the tiles of its own sheets in manifest
\* order, unchanged in data and name, and every later position up to 255 holds an
\* unnamed all-zero tile.
C7_PackedInOrder ==
    Built =>
        /\ PageIsPacked(p_result[1].value.left, p_sheet_table[1].left, disk)
        /\ PageIsPacked(p_result[1].value.right, p_sheet_table[1].right, disk)

C7_Witness ==
    /\ Built
    /\ Len(p_sheet_table[1].left) = 2
    /\ p_sheet_table[1].left[1].type = "Animation"
    /\ p_sheet_table[1].left[2].type = "Simple"
    /\ p_result[1].value.left[3].name = Some("s_0_0")
    /\ p_result[1].value.left[4].name = None

\* C8: a sheet of each of the four variants is accepted on either page; a Fill sheet
\* contributes its count tiles at its manifest position like the image-backed ones.
C8_FillAccepted ==
    (p_pc # "start" /\ AllSheetsFine(p_sheet_table[1], disk)
        /\ PageCount(p_sheet_table[1].left) <= 256
        /\ PageCount(p_sheet_table[1].right) <= 256) =>
        /\ Built
        /\ PageIsPacked(p_result[1].value.left, p_sheet_table[1].left, disk)
        /\ PageIsPacked(p_result[1].value.right, p_sheet_table[1].right, disk)

\* C9: PatternTable::write to a writer that takes every write in full emits exactly
\* 8192 bytes: the 16 data bytes of left tiles 0..255 in order, then those of right
\* tiles 0..255; names are not written.
C9_ChrLayout ==
    (p_pc = "written" /\ p_writer[1].accepts >= 16) =>
        /\ Len(p_writer[1].written) = 8192
        /\ \A i \in 0..255 : \A b \in 0..15 :
             /\ p_writer[1].written[16 * i + b + 1] = p_result[1].value.left[i + 1].data[b + 1]
             /\ p_writer[1].written[4096 + 16 * i + b + 1] =
                    p_result[1].value.right[i + 1].data[b + 1]
        /\ \A k \in 1..8192 : p_writer[1].written[k] \in 0..255

C9_Witness ==
    /\ p_pc = "written" /\ p_writer[1].accepts = 16
    /\ PageCount(p_sheet_table[1].left) = 2
    /\ PageCount(p_sheet_table[1].right) = 1
    /\ p_result[1].value.left[2].data # p_result[1].value.right[2].data
    /\ SubSeq(p_writer[1].written, 17, 32) = p_result[1].value.left[2].data

-----------------------------------------------------------------------------
(* The sheet extractors: properties *)

\* the pixel of a tile's 16 bytes at row r, column c (both 0..7)
TilePixel(data, r, c) == Bit(data[r + 1], 7 - c) + 2 * Bit(data[r + 8 + 1], 7 - c)

\* data is the 8x8 block at tile column x, tile row y of the bitmap
IsBlockOf(data, bitmap, x, y) ==
    /\ Len(data) = 16
    /\ \A r \in 0..7 : \A c \in 0..7 :
         TilePixel(data, r, c) = bitmap.buffer[(8 * y + r) * bitmap.width + 8 * x + c + 1]

C11_AnimationFrameMajor ==
    (s_pc = "done" /\ s_sheet[1].type = "Animation" /\ ImageSheetFine(s_sheet[1], disk)) =>
        LET fw == s_sheet[1].frame_width
            fh == s_sheet[1].frame_height
            F == s_sheet[1].frames
            bitmap == disk[s_sheet[1].file].bitmap
        IN  /\ s_result[1].kind = "Tiles"
            /\ Len(s_result[1].value) = F * fw * fh
            /\ \A f \in 0..(F - 1) : \A y \in 0..(fh - 1) : \A x \in 0..(fw - 1) :
                 /\ IsBlockOf(s_result[1].value[f * (fw * fh) + y * fw + x + 1].data,
                              bitmap, f * fw + x, y)
                 /\ s_result[1].value[f * (fw * fh) + y * fw + x + 1].name =
                        Some(s_sheet[1].name \o "_" \o ToString(f) \o "_"
                                 \o ToString(y * fw + x))
            /\ \A col \in 0..(fw * F - 1) : \A row \in 0..(fh - 1) :
                 Cardinality({n \in 1..Len(s_result[1].value) :
                                 IsBlockOf(s_result[1].value[n].data, bitmap, col, row)}) = 1
            /\ (F = 2 /\ fw = 1 /\ fh = 1) =>
                 [n \in 1..2 |-> s_result[1].value[n].name] =
                     <<Some("name_0_0"), Some("name_1_0")>>

C11_Witness ==
    /\ s_pc = "done" /\ s_sheet[1].type = "Animation" /\ s_result[1].kind = "Tiles"
    /\ s_sheet[1].frames = 2 /\ s_sheet[1].frame_width = 1 /\ s_sheet[1].frame_height = 2
    /\ disk[s_sheet[1].file].bitmap.width = 24
    /\ Len(s_result[1].value) = 4
    /\ s_result[1].value[2].name = Some("name_0_1")
    /\ s_result[1].value[3].name = Some("name_1_0")

\* the number of positions of the slices that hold pool index k
Uses(slices, k) ==
    SumOver([s \in 1..Len(slices) |->
                Cardinality({p \in 1..Len(slices[s]) : slices[s][p] = k})], Len(slices))

\* C12: Slice::pull_tiles with all indices in range returns as many tiles as the slice
\* lengths sum to, slice by slice and position by position; the tile for slice s,
\* position p has the data of pool tile slices[s][p] (pool in raster order) and is named
\* {name}_{s}_{p}; a pool tile is output as often as its index is listed.
C12_SliceByIndex ==
    (s_pc = "done" /\ s_sheet[1].type = "Slice" /\ ImageSheetFine(s_sheet[1], disk)) =>
        LET w == s_sheet[1].width
            h == s_sheet[1].height
            slices == s_sheet[1].slices
            lens == [k \in 1..Len(slices) |-> Len(slices[k])]
            bitmap == disk[s_sheet[1].file].bitmap
        IN  /\ s_result[1].kind = "Tiles"
            /\ Len(s_result[1].value) = SumOver(lens, Len(slices))
            /\ \A sn \in 1..Len(slices) : \A p \in 1..Len(slices[sn]) :
                 LET out == s_result[1].value[SumOver(lens, sn - 1) + p]
                     k == slices[sn][p]
                 IN  /\ IsBlockOf(out.data, bitmap, k % w, k \div w)
                     /\ out.name = Some(s_sheet[1].name \o "_" \o ToString(sn - 1) \o "_"
                                            \o ToString(p - 1))
            /\ \A k \in 0..(w * h - 1) :
                 Cardinality({n \in 1..Len(s_result[1].value) :
                                 IsBlockOf(s_result[1].value[n].data, bitmap, k % w, k \div w)})
                     = Uses(slices, k)

C12_Witness ==
    /\ s_pc = "done" /\ s_sheet[1].type = "Slice" /\ s_result[1].kind = "Tiles"
    /\ s_sheet[1].width = 2 /\ s_sheet[1].height = 2
    /\ s_sheet[1].slices = <<<<1, 0>>, <<0, 0, 3>>>>
    /\ Len(s_result[1].value) = 5
    /\ s_result[1].value[2].data = s_result[1].value[3].data
    /\ s_result[1].value[3].name = Some("name_1_0")

\* the sheet's image decodes, is large enough for the sheet and holds only 0..3
ImageLoads(sheet, files) ==
    /\ sheet.type \in {"Simple", "Animation", "Slice"}
    /\ files[sheet.file].kind = "RawData"
    /\ files[sheet.file].bitmap.width >= 8 * GridWidth(sheet)
    /\ files[sheet.file].bitmap.height >= 8 * GridHeight(sheet)
    /\ \A i \in 1..Len(files[sheet.file].bitmap.buffer) :
           files[sheet.file].bitmap.buffer[i] <= 3

\* some index of the slices is outside the pool of width*height tiles
IndexOutOfRange(sheet) ==
    \E k \in 1..Len(sheet.slices) : \E q \in 1..Len(sheet.slices[k]) :
        sheet.slices[k][q] >= sheet.width * sheet.height

\* C13: a Slice whose slices hold an index >= width*height makes extraction return a
\* DimensionsError as an error value, and no tiles.
C13_SliceIndexError ==
    (s_pc # "start" /\ s_sheet[1].type = "Slice" /\ ImageLoads(s_sheet[1], disk)
        /\ IndexOutOfRange(s_sheet[1])) =>
        (s_pc = "done" /\ s_result[1].kind = "DimensionsError")

\* C14: Fill::pull_tiles with value v in 0..3 and count n returns n tiles (none for
\* n = 0), each with bytes 0..7 all 0xFF if v is odd, else 0x00, and bytes 8..15 all
\* 0xFF if v >= 2, else 0x00, each named with the sheet's name and no suffix.
C14_FillTiles ==
    (s_pc = "done" /\ s_sheet[1].type = "Fill" /\ s_sheet[1].value <= 3) =>
        LET v == s_sheet[1].value
        IN  /\ s_result[1].kind = "Tiles"
            /\ Len(s_result[1].value) = s_sheet[1].count
            /\ \A n \in 1..Len(s_result[1].value) :
                 /\ s_result[1].value[n].name = Some(s_sheet[1].name)
                 /\ s_result[1].value[n].data =
                        [i \in 1..16 |-> IF i <= 8 THEN (IF v % 2 = 1 THEN 255 ELSE 0)
                                         ELSE (IF v >= 2 THEN 255 ELSE 0)]

C14_Witness ==
    /\ s_pc = "done" /\ s_sheet[1].type = "Fill"
    /\ s_sheet[1].value = 2 /\ s_sheet[1].count = 2
    /\ Len(s_result[1].value) = 2
    /\ s_result[1].value[2].data[1] = 0 /\ s_result[1].value[2].data[9] = 255

\* C15: a Fill with value > 3 is rejected with FormatError for every count, 0
\* included, and no tile is produced.
C15_FillValueRejected ==
    (s_pc # "start" /\ s_sheet[1].type = "Fill" /\ s_sheet[1].value > 3) =>
        (s_pc = "done" /\ s_result[1].kind = "FormatError")

C15_Witness ==
    /\ s_pc = "done" /\ s_sheet[1].type = "Fill"
    /\ s_sheet[1].value = 4 /\ s_sheet[1].count = 0
    /\ s_result[1].kind = "FormatError"

\* C16 as stated: a Fill with value 5 is rejected with a PaletteError.
C16_FillPaletteError ==
    (s_pc = "done" /\ s_sheet[1].type = "Fill" /\ s_sheet[1].value = 5) =>
        s_result[1].kind = "PaletteError"

\* C16: a Fill with value 5 is rejected by the extractor's own test, before any block
\* is packed, with the FormatError "Value must be between 0 and 3, but was 5".
C16_FillFiveFormatError ==
    (s_pc = "done" /\ s_sheet[1].type = "Fill" /\ s_sheet[1].value = 5) =>
        s_result[1] = [kind |-> "FormatError",
                       msg |-> "Value must be between 0 and 3, but was 5"]

C16_Witness ==
    /\ s_pc = "done" /\ s_sheet[1].type = "Fill"
    /\ s_sheet[1].value = 5 /\ s_sheet[1].count = 2
    /\ s_result[1].kind # "Tiles"

\* C17: for the image-backed variants, a bitmap narrower than sheet_width*8 or lower
\* than sheet_height*8 gives DimensionsError; otherwise a pixel above 3 anywhere in the
\* buffer, also outside the sheet's area, gives PaletteError; no tile is produced on
\* either; a bitmap of at least the sheet's size (exactly it included) with all pixels
\* <= 3 passes both tests.
C17_LoadTilesValidation ==
    (s_pc # "start" /\ s_sheet[1].type \in {"Simple", "Animation", "Slice"}
        /\ disk[s_sheet[1].file].kind = "RawData") =>
        LET bitmap == disk[s_sheet[1].file].bitmap
            need_w == 8 * GridWidth(s_sheet[1])
            need_h == 8 * GridHeight(s_sheet[1])
            fits == bitmap.width >= need_w /\ bitmap.height >= need_h
            bad == \E i \in 1..Len(bitmap.buffer) : bitmap.buffer[i] > 3
        IN  /\ ~fits => s_result[1].kind = "DimensionsError"
            /\ bitmap.width < need_w =>
                 s_result[1].msg = "Image too thin, need " \o ToString(need_w)
                                       \o ", got " \o ToString(bitmap.width) \o "."
            /\ (fits /\ bad) => s_result[1].kind = "PaletteError"
            /\ (fits /\ ~bad) => s_result[1].kind \notin {"DimensionsError", "PaletteError"}
            /\ (fits /\ ~bad /\ s_sheet[1].type # "Slice") => s_result[1].kind = "Tiles"

C17_Witness ==
    /\ s_pc = "done" /\ s_sheet[1].type = "Animation"
    /\ s_sheet[1].frame_width = 1 /\ s_sheet[1].frame_height = 1 /\ s_sheet[1].frames = 2
    /\ disk[s_sheet[1].file].kind = "RawData"
    /\ disk[s_sheet[1].file].bitmap.width = 24 /\ disk[s_sheet[1].file].bitmap.height = 24
    /\ disk[s_sheet[1].file].bitmap.buffer[24 * 24] = 4
    /\ s_result[1].kind = "PaletteError"

-----------------------------------------------------------------------------
(* The stage compiler: properties *)

\* the characters have been linearized
Linearized == g_pc \in {"encode", "body", "done"}

\* the length of the shortest of the lines ls (ls not empty)
MinLen(ls) ==
    CHOOSE m \in 0..Len(ls[1]) :
        /\ \A k \in 1..Len(ls) : m <= Len(ls[k])
        /\ \E k \in 1..Len(ls) : m = Len(ls[k])

\* C18: with Horizontal orientation the linearized characters are, for lines
\* l_0..l_(n-1) of least length m, exactly l_0[0], l_1[0], .., l_(n-1)[0], l_0[1], ..,
\* l_(n-1)[m-1]: n*m characters, none from a column >= m; "ab","cd" give a,c,b,d.
C18_HorizontalTruncated ==
    (Linearized /\ g_stage[1].orientation = Horizontal) =>
        LET ls == lines(g_stage[1].data)
            n == Len(ls)
        IN  /\ Len(g_chars) = n * MinLen(ls)
            /\ \A k \in 1..Len(g_chars) :
                 g_chars[k] = ls[((k - 1) % n) + 1][((k - 1) \div n) + 1]
            /\ g_stage[1].data = <<"a", "b", "\n", "c", "d">> =>
                 g_chars = <<"a", "c", "b", "d">>

NotLineEnd(c) == c # "\n" /\ c # "\r"

\* C19: with Vertical orientation the linearized characters are all the characters of
\* all the lines in order, whatever the line lengths, the line ends left out;
\* "ab","cd" give a,b,c,d.
C19_VerticalKeepsAll ==
    (Linearized /\ g_stage[1].orientation = Vertical) =>
        /\ g_chars = SelectSeq(g_stage[1].data, NotLineEnd)
        /\ g_stage[1].data = <<"a", "b", "\n", "c", "d">> =>
             g_chars = <<"a", "b", "c", "d">>

C19_Witness ==
    /\ g_pc = "encode" /\ g_stage[1].orientation = Vertical
    /\ g_stage[1].data = <<"a", "b", "\n", "\n", "a">>
    /\ g_chars = <<"a", "b", "a">>

\* the runs written out again
Expand(runs) == ConcatAll([k \in 1..Len(runs) |-> Rep(runs[k][1], runs[k][2])])

\* C20: run_length_encode with limit 16 gives runs of length 1..16 that spell the
\* input; a run ends only where the next character differs, the input ends or the run
\* has 16 characters, so two neighbouring runs have the same character only if the
\* first is 16 long; 17 'a' against the catalog {a:0} are written as 0xF0, 0x00; the
\* empty input gives no runs.
C20_RunsCappedAt16 ==
    g_pc \in {"body", "done"} =>
        /\ \A k \in 1..Len(g_encoded) : g_encoded[k][2] \in 1..16
        /\ Expand(g_encoded) = g_chars
        /\ \A k \in 1..(Len(g_encoded) - 1) :
             g_encoded[k][1] = g_encoded[k + 1][1] => g_encoded[k][2] = 16
        /\ g_chars = <<>> => g_encoded = <<>>
        /\ (g_pc = "done" /\ g_chars = Rep("a", 17) /\ g_stage[1].metatiles = CatA
               /\ g_writer[1].accepts >= 16) =>
             SubSeq(g_writer[1].written, Len(g_writer[1].written) - 1,
                    Len(g_writer[1].written)) = <<240, 0>>

C20_Witness ==
    /\ g_pc = "done" /\ g_chars = Rep("a", 17) /\ g_stage[1].metatiles = CatA
    /\ g_writer[1].accepts = 4096
    /\ g_encoded = <<<<"a", 16>>, <<"a", 1>>>>
    /\ Len(g_writer[1].written) = 41

\* the catalog has at most 16 metatiles and no two of them have one symbol
SmallCatalog(metatiles) ==
    /\ Len(metatiles) <= 16
    /\ \A i \in 1..Len(metatiles) : \A j \in 1..Len(metatiles) :
         metatiles[i].symbol = metatiles[j].symbol => i = j

InCatalog(metatiles, c) == \E i \in 1..Len(metatiles) : metatiles[i].symbol = c

\* the zero-based position of the first metatile with symbol c
PositionOf(metatiles, c) == (CHOOSE i \in 1..Len(metatiles) :
                                /\ metatiles[i].symbol = c
                                /\ \A j \in 1..(i - 1) : metatiles[j].symbol # c) - 1

\* the runs whose character is a symbol of the catalog
KnownRuns(runs, metatiles) ==
    LET Known(run) == InCatalog(metatiles, run[1]) IN SelectSeq(runs, Known)

\* the writer takes every write of this run in full
WriterTakesAll == g_writer[1].accepts >= 16 /\ g_writer[1].accepts >= Len(g_encoded)

\* the bytes written behind the palettes, the metatile records and the length byte
Body ==
    SubSeq(g_writer[1].written, 35 + 5 * Len(g_stage[1].metatiles),
           Len(g_writer[1].written))

\* C21: with a catalog of at most 16 metatiles of distinct symbols, every run whose
\* character is in the catalog gives exactly one body byte, its high nibble the run
\* length minus 1 and its low nibble the zero-based position of the character in the
\* catalog, and the body bytes stand in run order (given a writer that takes every
\* write in full).
C21_OneByteARun ==
    (g_pc = "done" /\ SmallCatalog(g_stage[1].metatiles) /\ WriterTakesAll) =>
        LET known == KnownRuns(g_encoded, g_stage[1].metatiles)
        IN  /\ Len(Body) = Len(known)
            /\ \A k \in 1..Len(known) :
                 /\ Body[k] \div 16 = known[k][2] - 1
                 /\ Body[k] % 16 = PositionOf(g_stage[1].metatiles, known[k][1])

C21_Witness ==
    /\ g_pc = "done" /\ g_stage[1].metatiles = CatAB /\ g_writer[1].accepts = 4096
    /\ g_encoded = <<<<"a", 1>>, <<"b", 16>>, <<"b", 1>>, <<"a", 15>>>>
    /\ Body = <<0, 241, 1, 224>>

\* C22: the bytes written are, in this order, the 16 bytes of the background palette,
\* the 16 bytes of the sprite palette, one metatile-count byte, for each metatile in
\* catalog order its palette byte and its 4 tile bytes, one body-length byte and the
\* body of b bytes, 34 + 5n + b bytes in all for n metatiles: no symbol and no name
\* is written (given a writer that takes every write in full).
C22_BinaryLayout ==
    (g_pc = "done" /\ WriterTakesAll) =>
        LET self == g_stage[1]
            written == g_writer[1].written
            n == Len(self.metatiles)
            b == Len(KnownRuns(g_encoded, self.metatiles))
        IN  /\ Len(self.background_palette) = 16 /\ Len(self.sprite_palette) = 16
            /\ Len(written) = 34 + 5 * n + b
            /\ SubSeq(written, 1, 16) = self.background_palette
            /\ SubSeq(written, 17, 32) = self.sprite_palette
            /\ written[33] \in 0..255
            /\ \A k \in 1..n :
                 /\ written[29 + 5 * k] = self.metatiles[k].palette
                 /\ SubSeq(written, 30 + 5 * k, 33 + 5 * k) = self.metatiles[k].tiles
            /\ written[34 + 5 * n] \in 0..255
            /\ Len(Body) = b

C22_Witness ==
    /\ g_pc = "done" /\ g_stage[1].metatiles = CatABCD /\ g_writer[1].accepts = 4096
    /\ g_stage[1].data = <<"a", "b", "\n", "c", "d">>
    /\ g_stage[1].orientation = Vertical
    /\ g_writer[1].written =
         BackgroundPalette \o SpritePalette
         \o <<4, 0, 1, 2, 3, 4, 1, 5, 6, 7, 8, 2, 9, 10, 11, 12, 3, 13, 14, 15, 16>>
         \o <<4, 0, 1, 2, 3>>

\* C23: in every stage binary written, the body-length byte is the number of body
\* bytes that follow it, so no binary has a wrong length prefix (given a writer that
\* takes every write in full).
C23_LengthByteIsBodyLength ==
    (g_pc = "done" /\ WriterTakesAll) =>
        g_writer[1].written[34 + 5 * Len(g_stage[1].metatiles)] = Len(Body)

\* the body-length byte as written
LengthByte == g_writer[1].written[34 + 5 * Len(g_stage[1].metatiles)]

\* C24: a run whose character is no symbol of the catalog gives no body byte and no
\* error: write_binary returns Ok, the runs before and after it are encoded as they
\* are (each with its own length, not merged across the gap), and the body-length
\* byte counts the emitted bytes only (given a writer that takes every write in full;
\* bodies of up to 255 bytes for the length byte).
C24_UnknownRunSkipped ==
    (g_pc = "done" /\ WriterTakesAll) =>
        LET metatiles == g_stage[1].metatiles
            known == KnownRuns(g_encoded, metatiles)
        IN  /\ g_result = Some(Ok("Unit", <<>>))
            /\ Len(Body) = Len(known)
            /\ \A k \in 1..Len(known) :
                 /\ Body[k] \div 16 = known[k][2] - 1
                 /\ \E i \in 1..Len(metatiles) :
                      metatiles[i].symbol = known[k][1] /\ Body[k] % 16 = (i - 1) % 16
            /\ Len(known) <= 255 => LengthByte = Len(known)

C24_Witness ==
    /\ g_pc = "done" /\ g_stage[1].metatiles = CatA /\ g_writer[1].accepts = 4096
    /\ g_encoded = <<<<"a", 1>>, <<"x", 16>>, <<"x", 1>>, <<"a", 15>>>>
    /\ LengthByte = 2 /\ Body = <<0, 224>>
    /\ g_result = Some(Ok("Unit", <<>>))

DistinctSymbols(metatiles) ==
    \A i \in 1..Len(metatiles) : \A j \in 1..Len(metatiles) :
        metatiles[i].symbol = metatiles[j].symbol => i = j

\* C25: a catalog of more than 16 metatiles (of distinct symbols) is compiled without
\* error; a run of the metatile at zero-based position i is emitted with the low nibble
\* i mod 16, the byte a run of that length of metatile i mod 16 gets; the
\* metatile-count byte is the catalog length modulo 256 and every metatile record is
\* written (given a writer that takes every write in full).
C25_LargeCatalogWraps ==
    (g_pc = "done" /\ WriterTakesAll /\ Len(g_stage[1].metatiles) > 16
        /\ DistinctSymbols(g_stage[1].metatiles)) =>
        LET metatiles == g_stage[1].metatiles
            written == g_writer[1].written
            known == KnownRuns(g_encoded, metatiles)
        IN  /\ g_result = Some(Ok("Unit", <<>>))
            /\ written[33] = Len(metatiles) % 256
            /\ \A k \in 1..Len(metatiles) :
                 /\ written[29 + 5 * k] = metatiles[k].palette
                 /\ SubSeq(written, 30 + 5 * k, 33 + 5 * k) = metatiles[k].tiles
            /\ Len(Body) = Len(known)
            /\ \A k \in 1..Len(known) :
                 Body[k] = 16 * (known[k][2] - 1) + (PositionOf(metatiles, known[k][1]) % 16)

C25_Witness ==
    /\ g_pc = "done" /\ g_stage[1].metatiles = Catalog(256) /\ g_writer[1].accepts = 4096
    /\ g_encoded = <<<<Symbol(18), 2>>, <<Symbol(256), 1>>>>
    /\ g_writer[1].written[33] = 0
    /\ Len(g_writer[1].written) = 34 + 5 * 256 + 2
    /\ Body = <<17, 15>>

\* C27: write_binary terminates for every stage and either orientation, a stage of
\* zero lines, with an empty line or with lines of unequal lengths included: every
\* call comes to its return.
C27_Terminates == <>(g_pc = "done")

-----------------------------------------------------------------------------
(* The pattern table builder: order of extraction *)

\* the sheets of the table in manifest order, the left page first
InOrder(sheet_table) == sheet_table.left \o sheet_table.right

\* the table has only sheets of the kinds from_sheet_pattern_table has an arm for
OnlyImageSheets(sheet_table) ==
    \A k \in 1..Len(InOrder(sheet_table)) : InOrder(sheet_table)[k].type # "Fill"

\* the extraction of sheet k of the table fails
Fails(sheet_table, files, k) ==
    match_pull_tiles(InOrder(sheet_table)[k], files).kind # "Tiles"

\* C29: from_sheet_pattern_table extracts the sheets strictly in order, the left page
\* and then the right page, and stops at the first sheet whose extraction fails: it
\* returns that sheet's error and extracts no later sheet; the capacities are tested
\* only after all extraction, so an extraction error on the right page is reported
\* even when the left page holds more than 256 tiles.
C29_ExtractInOrder ==
    (p_pc # "start" /\ OnlyImageSheets(p_sheet_table[1])) =>
        LET all == InOrder(p_sheet_table[1])
            failing == {k \in 1..Len(all) : Fails(p_sheet_table[1], disk, k)}
        IN  IF failing = {}
            THEN /\ p_pulled = all
                 /\ p_result[1].kind \in {"PatternTable", "DimensionsError"}
            ELSE LET first == CHOOSE k \in failing : \A j \in failing : k <= j
                 IN  /\ p_pulled = SubSeq(all, 1, first)
                     /\ p_result[1] = match_pull_tiles(all[first], disk)
                     /\ p_pc = "failed"

C29_Witness ==
    /\ p_pc = "failed"
    /\ p_sheet_table[1].left = <<LongSlice(257)>>
    /\ p_sheet_table[1].right = <<Simple("missing.png", "m", 1, 1)>>
    /\ p_pulled = <<LongSlice(257), Simple("missing.png", "m", 1, 1)>>
    /\ p_result[1].kind # "DimensionsError"

-----------------------------------------------------------------------------
(* run_length_encode and the iterators on their own *)

\* C28: run_length_encode loses nothing, for every input and every limit of at least
\* 2: its runs, each character repeated by its count, spell the input again; inputs
\* with the NUL character, the reset marker of the code, are no exception.
C28_Lossless ==
    r_pc = "done" =>
        /\ Expand(r_encoded) = r_chars
        /\ \A k \in 1..Len(r_encoded) : r_encoded[k][2] \in 1..r_limit

C28_Witness ==
    /\ r_pc = "done" /\ r_limit = 2
    /\ r_chars = <<"a", "a", NUL, NUL, NUL>>
    /\ r_encoded = <<<<"a", 2>>, <<NUL, 2>>, <<NUL, 1>>>>

\* C30: once a TileIterator or a TileRowIterator has returned None, every later
\* next() returns None again: it never yields an item again and never fails, the u8
\* counter does not overflow.
C30_StaysExhausted == i_fused => (i_last = None /\ i_pc # "panic")

-----------------------------------------------------------------------------
(* The spritesheetc run: properties *)

\* the pattern table of the run has been built
TableBuilt == c_pc \in {"write_chr", "headers", "done"}

\* the CHR bytes of the run have been written
ChrWritten == c_pc \in {"headers", "done"}

\* C26: when the run fails on the manifest or on the build of the pattern table, no
\* empty or truncated CHR file is left: the CHR output is not created, truncated or
\* written before the whole pattern table is built, and the header files are written
\* only after the CHR bytes.
C26_NoChrBeforeBuild ==
    c_config # None =>
        /\ (c_config[1].chr # None /\ ~TableBuilt) =>
             c_fs[c_config[1].chr[1]] = c_before[c_config[1].chr[1]]
        /\ \A path \in {c_config[1].header, c_config[1].asm} \ {None} :
             (c_fs[path[1]].data # <<>> /\ c_fs[path[1]] # c_before[path[1]]) => ChrWritten

====
